---- MODULE Spec2Model ----
(***************************************************************************)
(* markmath: a formula language with unit tracking embedded in documents.  *)
(*                                                                         *)
(* The module models                                                       *)
(*   - the expression compiler (Expression::new, transform_operators),     *)
(*   - the evaluator and its unit algebra (Expression::eval),              *)
(*   - the interactive unit library (UnitCollection, CLIUnitLib),          *)
(*   - one document pass (parse_markdown, handle_code_block,               *)
(*     CalculationsBuilder),                                               *)
(*   - the unit collection's text form (Display, FromStr).                 *)
(* Each part has its own specification; the variables of the other parts   *)
(* stay at their idle values.                                              *)
(***************************************************************************)
EXTENDS Integers, Sequences, FiniteSets, TLC

VARIABLES
    \* ---- expression compiler
    tokens,     \* the TokenTree handed to Expression::new
    tnode,      \* the TransformNode after TransformNode::transform (outermost run)
    expr,       \* the result of Expression::new
    evald,      \* the result of Expression::eval on expr
    cstage      \* "tokens" | "compiled" | "evaluated" | "idle"

cvars == <<tokens, tnode, expr, evald, cstage>>

VARIABLES
    \* ---- evaluator: a sequence of eval calls on one EvaluationContext
    ectx,       \* the EvaluationContext
    elog,       \* every store_variable call so far: <<name, value, unit>>
    elast,      \* the last call: [e, pre (context before), prelog, res]
    esteps      \* number of eval calls so far

evars == <<ectx, elog, elast, esteps>>

VARIABLES
    \* ---- CLIUnitLib
    collection, \* UnitCollection: [defined_units, operator_results]
    cache,      \* Vec<DefinedUnit>: the units cached and not yet resolved
    interact,   \* bool
    uphase,     \* "caching" | "resolved" (resolve_units has returned) |
                \* "rendered" | "idle"
    asked,      \* every prompt so far, in order
    runs,       \* number of resolve_units calls so far
    lastrun,    \* the last resolve_units call: [cache, labelled] as it began
    pass_units, \* the units passed to cache_defined_unit in this pass
    ncached,    \* number of cache_defined_unit calls so far
    got         \* the results of the get_defined_unit calls of this pass, by unit

uvars == <<collection, cache, interact, uphase, asked, runs, lastrun, pass_units,
           ncached, got>>

VARIABLES
    \* ---- parse_markdown: one pass over a document
    mdoc,       \* the code blocks of the document
    mpos,       \* number of code blocks handled so far
    mctx,       \* the EvaluationContext of the pass
    mcalcs,     \* the Calculations of the CalculationsBuilder
    mresults,   \* code_blocks: the result of handle_code_block, per block
    mlog,       \* per handled block: [ctx, ncalcs] as the block found them
    mstage,     \* "blocks" | "done" | "panicked" | "idle"
    mout,       \* the returned text, as a sequence of pieces
    mcalls      \* the calls of the pass to the unit library so far, in order

mvars == <<mdoc, mpos, mctx, mcalcs, mresults, mlog, mstage, mout, mcalls>>

VARIABLES
    \* ---- the unit collection saved to units.txt and parsed again
    pcoll,      \* the UnitCollection in memory
    ptext,      \* the text written to the file
    ploaded,    \* the result of parsing the text
    pstage      \* "memory" | "saved" | "loaded" | "idle"

pvars == <<pcoll, ptext, ploaded, pstage>>

VARIABLES
    \* ---- one call of fmt_expression
    tfmt,       \* the template, the sequence of its characters
    targs,      \* the operands
    tout,       \* what the call appended to out, or the panic
    tstage      \* "template" | "done" | "idle"

tvars == <<tfmt, targs, tout, tstage>>

VARIABLES
    \* ---- parse::tokenize on the source tokens of one formula line
    gtokens,    \* the Vec<SourceToken> that tokenize_source returned
    gchecks,    \* overflow checks of the build: on (debug) or off (release)
    gres,       \* the result of tokenize
    gstage      \* "tokens" | "done" | "idle"

gvars == <<gtokens, gchecks, gres, gstage>>

VARIABLES
    \* ---- one call of add_single_calculation
    btree,      \* the token tree of the formula
    bexp,       \* the Expression compiled from it
    bmode,      \* the ValueMode
    bbefore,    \* the CalculationsBuilder as the call finds it
    bres,       \* the result of the call, with the builder as it leaves it
    bstage      \* "formula" | "added" | "idle"

bvars == <<btree, bexp, bmode, bbefore, bres, bstage>>

vars == <<cvars, evars, uvars, mvars, pvars, tvars, gvars, bvars>>

NotCompile == <<evars, uvars, mvars, pvars, tvars, gvars, bvars>>

NotEval == <<cvars, uvars, mvars, pvars, tvars, gvars, bvars>>

NotUnit == <<cvars, evars, mvars, pvars, tvars, gvars, bvars>>

NotMarkdown == <<cvars, evars, pvars, tvars, gvars, bvars>>

NotPersist == <<cvars, evars, uvars, mvars, tvars, gvars, bvars>>

NotTemplate == <<cvars, evars, uvars, mvars, pvars, gvars, bvars>>

NotParse == <<cvars, evars, uvars, mvars, pvars, tvars, bvars>>

NotBuilder == <<cvars, evars, uvars, mvars, pvars, tvars, gvars>>

(***************************************************************************)
(* f64 values.  The model keeps the rational floats exactly, as n/d in     *)
(* lowest terms with d > 0, and folds every other float (inf, NaN, an      *)
(* irrational result) into NonRational.                                    *)
(***************************************************************************)
NonRational == [n |-> 0, d |-> 0]

AbsInt(i) == IF i < 0 THEN -i ELSE i

RECURSIVE Gcd(_, _)
Gcd(a, b) == IF b = 0 THEN a ELSE Gcd(b, a % b)

Rat(n, d) ==
    IF d = 0 THEN NonRational
    ELSE LET g == Gcd(AbsInt(n), AbsInt(d))
             s == IF d < 0 THEN -1 ELSE 1
         IN  [n |-> s * (n \div g), d |-> AbsInt(d) \div g]

Int2F(i) == [n |-> i, d |-> 1]

IsRational(a) == a.d # 0

IsZero(a) == a.d # 0 /\ a.n = 0

FAdd(a, b) == IF IsRational(a) /\ IsRational(b)
              THEN Rat(a.n * b.d + b.n * a.d, a.d * b.d) ELSE NonRational

FSub(a, b) == IF IsRational(a) /\ IsRational(b)
              THEN Rat(a.n * b.d - b.n * a.d, a.d * b.d) ELSE NonRational

FMul(a, b) == IF IsRational(a) /\ IsRational(b)
              THEN Rat(a.n * b.n, a.d * b.d) ELSE NonRational

FDiv(a, b) == IF IsRational(a) /\ IsRational(b)
              THEN Rat(a.n * b.d, a.d * b.n) ELSE NonRational

FNeg(a) == [n |-> -a.n, d |-> a.d]

\* a < b on floats; every comparison with NaN is false
FLt(a, b) == IsRational(a) /\ IsRational(b) /\ a.n * b.d < b.n * a.d

RECURSIVE IntPow(_, _)
IntPow(a, k) == IF k = 0 THEN Int2F(1) ELSE FMul(a, IntPow(a, k - 1))

\* f64::powf, exact for an integer exponent
FPow(a, b) ==
    IF ~(IsRational(a) /\ IsRational(b)) \/ b.d # 1 THEN NonRational
    ELSE IF b.n >= 0 THEN IntPow(a, b.n)
    ELSE FDiv(Int2F(1), IntPow(a, -b.n))

\* f64::sqrt of a >= 0, exact for a ratio of squares
FSqrt(a) ==
    IF ~IsRational(a) THEN NonRational
    ELSE IF \E p \in 0..a.n, q \in 1..a.d : p * p = a.n /\ q * q = a.d
         THEN LET p == CHOOSE p \in 0..a.n : p * p = a.n
                  q == CHOOSE q \in 1..a.d : q * q = a.d
              IN  [n |-> p, d |-> q]
         ELSE NonRational

(***************************************************************************)
(* The math library: latex_impl/operators.rs                               *)
(***************************************************************************)
RegisteredOperators == {"+", "-", "*", "/", "//", "**"}

operator_exists(symbol) == symbol \in RegisteredOperators

\* Defined on the registered symbols; the provider panics on any other
\* symbol (expect), which the callers below model before they ask.
operator_precedence(symbol) ==
    CASE symbol \in {"+", "-"} -> 0
      [] symbol \in {"*", "/", "//"} -> 1
      [] symbol = "**" -> 2

operator_associative(symbol) == symbol \in {"+", "*"}

should_parenthesize_left(symbol) == symbol # "/"

should_parenthesize_right(symbol) == symbol \notin {"/", "**"}

Ok(v) == [ok |-> TRUE, v |-> v, err |-> ""]

Err(e) == [ok |-> FALSE, v |-> NonRational, err |-> e]

div(left, right) ==
    IF IsZero(right) THEN Err("division by zero") ELSE Ok(FDiv(left, right))

\* symbol is registered (the caller models the expect)
eval_operator(symbol, left, right) ==
    CASE symbol = "+" -> Ok(FAdd(left, right))
      [] symbol = "-" -> Ok(FSub(left, right))
      [] symbol = "*" -> Ok(FMul(left, right))
      [] symbol = "/" -> div(left, right)
      [] symbol = "//" -> div(left, right)
      [] symbol = "**" -> Ok(FPow(left, right))

(***************************************************************************)
(* The math library: latex_impl/functions.rs                               *)
(***************************************************************************)
FunctionArity ==
    [pi |-> 0, e |-> 0, par |-> 1, floor |-> 1, ceil |-> 1, abs |-> 1,
     sqrt |-> 1, nroot |-> 2, log10 |-> 1, log |-> 2, sin |-> 1, cos |-> 1,
     tan |-> 1, atan |-> 1, asin |-> 1, acos |-> 1, mod |-> 2, p |-> 2,
     disp |-> 2]

function_exists(name, param_c) ==
    name \in DOMAIN FunctionArity /\ FunctionArity[name] = param_c

\* name is registered with Len(args) parameters (Expression::new checked it).
\* Results that are no rational float are NonRational.
eval_function(name, args) ==
    CASE name = "par" -> Ok(args[1])
      [] name = "abs" -> Ok(IF IsRational(args[1]) /\ args[1].n < 0
                            THEN FNeg(args[1]) ELSE args[1])
      [] name = "sqrt" -> IF FLt(args[1], Int2F(0))
                          THEN Err("sqrt of negative number")
                          ELSE Ok(FSqrt(args[1]))
      [] name = "nroot" -> IF IsZero(args[2])
                           THEN Err("root with exponent 0")
                           ELSE Ok(IF args[2] = Int2F(1) THEN args[1]
                                   ELSE IF args[2] = Int2F(2) THEN FSqrt(args[1])
                                   ELSE NonRational)
      [] name = "log10" -> IF IsRational(args[1]) /\ args[1].n <= 0
                           THEN Err("log10 of non-positive number")
                           ELSE Ok(NonRational)
      [] name = "log" -> IF \/ IsRational(args[1]) /\ args[1].n <= 0
                            \/ IsRational(args[2]) /\ args[2].n <= 0
                         THEN Err("log of non-positive number")
                         ELSE Ok(NonRational)
      [] name = "asin" -> IF FLt(Int2F(1), args[1]) \/ FLt(args[1], Int2F(-1))
                          THEN Err("asin domain error") ELSE Ok(NonRational)
      [] name = "acos" -> IF FLt(Int2F(1), args[1]) \/ FLt(args[1], Int2F(-1))
                          THEN Err("acos domain error") ELSE Ok(NonRational)
      [] name = "mod" -> IF IsZero(args[2]) THEN Err("mod by zero")
                         ELSE Ok(IF IsRational(args[1]) /\ IsRational(args[2])
                                    /\ args[1].d = 1 /\ args[2].d = 1
                                    /\ args[1].n >= 0 /\ args[2].n > 0
                                 THEN Int2F(args[1].n % args[2].n)
                                 ELSE NonRational)
      [] name = "disp" -> Ok(args[1])
      [] OTHER -> Ok(NonRational)   \* pi, e, floor, ceil, trigonometry, p

(***************************************************************************)
(* Unit and DefinedUnit: expression.rs                                     *)
(***************************************************************************)
UnitNone == [k |-> "None"]

UnitLiteral(s) == [k |-> "Literal", s |-> s]

UnitDefined(d) == [k |-> "Defined", d |-> d]

Defined(name) == [k |-> "Defined", name |-> name]

Implicit(operator, associative, left, right) ==
    [k |-> "Implicit", operator |-> operator, associative |-> associative,
     left |-> left, right |-> right]

(***************************************************************************)
(* EvaluationContext: a map from variable names to (value, unit)           *)
(***************************************************************************)
EmptyContext == [n \in {} |-> 0]

get_variable(ctx, name) ==
    IF name \in DOMAIN ctx THEN [some |-> TRUE, v |-> ctx[name].v, u |-> ctx[name].u]
    ELSE [some |-> FALSE, v |-> NonRational, u |-> UnitNone]

\* mutant of store_variable: an entry, once stored, is kept
store_variable_keep_first(ctx, name, value) ==
    IF name \in DOMAIN ctx THEN ctx
    ELSE [n \in DOMAIN ctx \cup {name} |-> IF n = name THEN value ELSE ctx[n]]

store_variable(ctx, name, value) ==
    [n \in DOMAIN ctx \cup {name} |-> IF n = name THEN value ELSE ctx[n]]

(***************************************************************************)
(* TokenTree (parse.rs) and Expression (expression.rs) nodes               *)
(***************************************************************************)
TNumberLiteral(text) == [t |-> "NumberLiteral", text |-> text]

TVariableRef(name) == [t |-> "VariableRef", name |-> name]

TVariableAssign(name, child) == [t |-> "VariableAssign", name |-> name, child |-> child]

TOperatorSequence(operators, children) ==
    [t |-> "OperatorSequence", operators |-> operators, children |-> children]

TDefinedUnit(name, child) == [t |-> "DefinedUnit", name |-> name, child |-> child]

TLiteralUnit(name, child) == [t |-> "LiteralUnit", name |-> name, child |-> child]

TFunctionCall(name, args) == [t |-> "FunctionCall", name |-> name, args |-> args]

TNegate(child) == [t |-> "Negate", child |-> child]

NumberLiteral(v) == [t |-> "NumberLiteral", v |-> v]

VariableRef(name) == [t |-> "VariableRef", name |-> name]

VariableAssign(name, child) == [t |-> "VariableAssign", name |-> name, child |-> child]

Operator(operator, left, right) ==
    [t |-> "Operator", operator |-> operator, left |-> left, right |-> right]

\* name is NoName for Option::None
NoName == "None"

DefinedUnitExp(name, child) == [t |-> "DefinedUnit", name |-> name, child |-> child]

LiteralUnitExp(name, child) == [t |-> "LiteralUnit", name |-> name, child |-> child]

FunctionCall(function, args) == [t |-> "FunctionCall", function |-> function, args |-> args]

Negate(child) == [t |-> "Negate", child |-> child]

(***************************************************************************)
(* str::parse::<f64> on a Number token: a sequence of the characters       *)
(* "0".."9" and ".".  It is a float iff it holds at most one "." and at    *)
(* least one digit.                                                        *)
(***************************************************************************)
DigitValue ==
    [c \in {"0", "1", "2", "3", "4", "5", "6", "7", "8", "9"} |->
        CASE c = "0" -> 0 [] c = "1" -> 1 [] c = "2" -> 2 [] c = "3" -> 3
          [] c = "4" -> 4 [] c = "5" -> 5 [] c = "6" -> 6 [] c = "7" -> 7
          [] c = "8" -> 8 [] c = "9" -> 9]

RECURSIVE DigitsValue(_, _)
\* the integer written by the digits of text[1..k], dots skipped
DigitsValue(text, k) ==
    IF k = 0 THEN 0
    ELSE IF text[k] = "." THEN DigitsValue(text, k - 1)
    ELSE 10 * DigitsValue(text, k - 1) + DigitValue[text[k]]

parse_f64(text) ==
    LET dots == {i \in 1..Len(text) : text[i] = "."}
        digits == {i \in 1..Len(text) : text[i] # "."}
    IN  IF Cardinality(dots) > 1 \/ digits = {} THEN [ok |-> FALSE, v |-> NonRational]
        ELSE LET frac == IF dots = {} THEN 0
                         ELSE Len(text) - (CHOOSE i \in dots : TRUE)
             IN  [ok |-> TRUE,
                  v |-> Rat(DigitsValue(text, Len(text)), IntPow(Int2F(10), frac).n)]

(***************************************************************************)
(* TransformNode: expression.rs 260-320                                    *)
(***************************************************************************)
TOp(left, right, op) == [t |-> "Op", left |-> left, right |-> right, op |-> op]

TExpr(e) == [t |-> "Expr", e |-> e]

\* the provider's expect failed inside transform
TPanic == [t |-> "Panic"]

\* mutants of should_rotate: rotate also at equal precedence; consult the
\* associativity flag at equal precedence
should_rotate_ge(op, l_op) == operator_precedence(op) >= operator_precedence(l_op)

should_rotate_assoc(op, l_op) ==
    \/ operator_precedence(op) > operator_precedence(l_op)
    \/ operator_precedence(op) = operator_precedence(l_op) /\ operator_associative(op)

\* the test of expression.rs 287; both symbols are registered
should_rotate(op, l_op) == operator_precedence(op) > operator_precedence(l_op)

RECURSIVE transform(_)
transform(self) ==
    IF self.t # "Op" THEN self
    ELSE LET left == transform(self.left) IN
         IF left.t = "Panic" THEN TPanic
         ELSE IF left.t # "Op" THEN TOp(left, self.right, self.op)
         ELSE IF ~operator_exists(self.op) \/ ~operator_exists(left.op) THEN TPanic
         ELSE IF should_rotate(self.op, left.op)
              THEN TOp(left.left, TOp(left.right, self.right, self.op), left.op)
              ELSE TOp(TOp(left.left, left.right, left.op), self.right, self.op)

RECURSIVE compile(_)
compile(self) ==
    IF self.t = "Op"
    THEN Operator(self.op, compile(self.left), compile(self.right))
    ELSE self.e

Min(a, b) == IF a < b THEN a ELSE b

RECURSIVE chain(_, _, _)
\* the left-deep chain over the first k operators (the while-let loop)
chain(operators, expressions, k) ==
    IF k = 1
    THEN TOp(TExpr(expressions[1]), TExpr(expressions[2]), operators[1])
    ELSE TOp(chain(operators, expressions, k - 1), TExpr(expressions[k + 1]),
             operators[k])

\* a transform_operators whose loop stops one operand early
transform_run_short(operators, expressions) ==
    IF Len(expressions) < 2 \/ Len(operators) < 1 THEN TPanic
    ELSE transform(chain(operators, expressions,
                         IF Len(operators) > 1 THEN Len(operators) - 1 ELSE 1))

\* the TransformNode that transform_operators compiles; TPanic when one of
\* its expects, or one inside transform, fails
transform_run(operators, expressions) ==
    IF Len(expressions) < 2 \/ Len(operators) < 1 THEN TPanic
    ELSE transform(chain(operators, expressions,
                         Min(Len(operators), Len(expressions) - 1)))

PanicExpression == [t |-> "Panic"]

transform_operators(operators, expressions) ==
    LET l == transform_run(operators, expressions)
    IN  IF l.t = "Panic" THEN PanicExpression ELSE compile(l)

(***************************************************************************)
(* Expression::new: expression.rs 127-181.  The result is                  *)
(*   [r |-> "Ok", e], [r |-> "Err", err] (an ExpressionError) or           *)
(*   [r |-> "Panic"].                                                      *)
(***************************************************************************)
NewOk(e) == [r |-> "Ok", e |-> e, err |-> ""]

NewErr(err) == [r |-> "Err", e |-> PanicExpression, err |-> err]

NewPanic == [r |-> "Panic", e |-> PanicExpression, err |-> ""]

RECURSIVE Expression_new(_)
RECURSIVE Expression_new_all(_, _)

\* children.into_iter().map(new).collect::<Result<_, _>>() from child i on:
\* [r, es, err], stopping at the first child that fails
Expression_new_all(children, i) ==
    IF i > Len(children) THEN [r |-> "Ok", es |-> <<>>, err |-> ""]
    ELSE LET c == Expression_new(children[i]) IN
         IF c.r # "Ok" THEN [r |-> c.r, es |-> <<>>, err |-> c.err]
         ELSE LET rest == Expression_new_all(children, i + 1) IN
              IF rest.r # "Ok" THEN rest
              ELSE [r |-> "Ok", es |-> <<c.e>> \o rest.es, err |-> ""]

Expression_new(token_tree) ==
    CASE token_tree.t = "VariableAssign" ->
            LET c == Expression_new(token_tree.child) IN
            IF c.r # "Ok" THEN c ELSE NewOk(VariableAssign(token_tree.name, c.e))
      [] token_tree.t = "OperatorSequence" ->
            LET cs == Expression_new_all(token_tree.children, 1) IN
            IF cs.r = "Err" THEN NewErr(cs.err)
            ELSE IF cs.r = "Panic" THEN NewPanic
            ELSE LET x == transform_operators(token_tree.operators, cs.es) IN
                 IF x.t = "Panic" THEN NewPanic ELSE NewOk(x)
      [] token_tree.t = "DefinedUnit" ->
            LET c == Expression_new(token_tree.child) IN
            IF c.r # "Ok" THEN c
            ELSE NewOk(DefinedUnitExp(IF token_tree.name = "None" THEN NoName
                                      ELSE token_tree.name, c.e))
      [] token_tree.t = "LiteralUnit" ->
            LET c == Expression_new(token_tree.child) IN
            IF c.r # "Ok" THEN c ELSE NewOk(LiteralUnitExp(token_tree.name, c.e))
      [] token_tree.t = "FunctionCall" ->
            IF function_exists(token_tree.name, Len(token_tree.args))
            THEN LET cs == Expression_new_all(token_tree.args, 1) IN
                 IF cs.r = "Err" THEN NewErr(cs.err)
                 ELSE IF cs.r = "Panic" THEN NewPanic
                 ELSE NewOk(FunctionCall(token_tree.name, cs.es))
            ELSE NewErr("InvalidFunction")
      [] token_tree.t = "VariableRef" -> NewOk(VariableRef(token_tree.name))
      [] token_tree.t = "NumberLiteral" ->
            LET v == parse_f64(token_tree.text) IN
            IF v.ok THEN NewOk(NumberLiteral(v.v)) ELSE NewErr("InvalidNumber")
      [] token_tree.t = "Negate" ->
            LET c == Expression_new(token_tree.child) IN
            IF c.r # "Ok" THEN c ELSE NewOk(Negate(c.e))

(***************************************************************************)
(* Expression::eval: expression.rs 183-256.  The result is                 *)
(*   [r |-> "Ok", v, u], [r |-> "Err", err] or [r |-> "Panic"], with       *)
(*   ctx: the context as the call leaves it (also when it fails), and      *)
(*   log: the (name, value, unit) of every store_variable call, in order.  *)
(***************************************************************************)
NoError == [kind |-> "", detail |-> ""]

LibraryError(e) == [kind |-> "LibraryError", detail |-> e]

MissingVariable(name) == [kind |-> "MissingVariable", detail |-> name]

EvalOk(v, u, ctx, log) ==
    [r |-> "Ok", v |-> v, u |-> u, err |-> NoError, ctx |-> ctx, log |-> log]

EvalErr(err, ctx, log) ==
    [r |-> "Err", v |-> NonRational, u |-> UnitNone, err |-> err, ctx |-> ctx,
     log |-> log]

EvalPanic(ctx, log) ==
    [r |-> "Panic", v |-> NonRational, u |-> UnitNone, err |-> NoError, ctx |-> ctx,
     log |-> log]

\* mutant of operator_unit: two literal units do not cancel
operator_unit_literal_kept(operator, l_u, r_u) ==
    IF l_u.k = "Defined"
    THEN IF r_u.k = "Defined"
         THEN UnitDefined(Implicit(operator, operator_associative(operator),
                                   l_u.d, r_u.d))
         ELSE UnitDefined(l_u.d)
    ELSE IF l_u.k = "Literal"
    THEN IF r_u.k = "Defined" THEN UnitDefined(r_u.d)
         ELSE UnitLiteral(l_u.s)
    ELSE r_u

\* the unit of an Operator node: expression.rs 202-218
operator_unit(operator, l_u, r_u) ==
    IF l_u.k = "Defined"
    THEN IF r_u.k = "Defined"
         THEN UnitDefined(Implicit(operator, operator_associative(operator),
                                   l_u.d, r_u.d))
         ELSE UnitDefined(l_u.d)
    ELSE IF l_u.k = "Literal"
    THEN IF r_u.k = "Defined" THEN UnitDefined(r_u.d)
         ELSE IF r_u.k = "Literal" THEN UnitNone
         ELSE UnitLiteral(l_u.s)
    ELSE r_u

RECURSIVE eval(_, _)
RECURSIVE eval_args(_, _, _)

\* args.map(|arg| arg.eval(..).map(|(v, _)| v)).collect::<Result<Vec<_>, _>>()
\* from argument i on: [r, vs, err, ctx, log]
eval_args(args, i, ctx) ==
    IF i > Len(args) THEN [r |-> "Ok", vs |-> <<>>, err |-> NoError, ctx |-> ctx, log |-> <<>>]
    ELSE LET a == eval(args[i], ctx) IN
         IF a.r # "Ok"
         THEN [r |-> a.r, vs |-> <<>>, err |-> a.err, ctx |-> a.ctx, log |-> a.log]
         ELSE LET rest == eval_args(args, i + 1, a.ctx) IN
              [r |-> rest.r, vs |-> <<a.v>> \o rest.vs, err |-> rest.err,
               ctx |-> rest.ctx, log |-> a.log \o rest.log]

eval(self, ctx) ==
    CASE self.t = "VariableAssign" ->
            LET res == eval(self.child, ctx) IN
            IF res.r # "Ok" THEN res
            ELSE EvalOk(res.v, res.u,
                        store_variable(res.ctx, self.name, [v |-> res.v, u |-> res.u]),
                        Append(res.log, <<self.name, res.v, res.u>>))
      [] self.t = "Operator" ->
            LET l == eval(self.left, ctx) IN
            IF l.r # "Ok" THEN l
            ELSE LET r == eval(self.right, l.ctx)
                     log == l.log \o r.log
                 IN
                 IF r.r = "Err" THEN EvalErr(r.err, r.ctx, log)
                 ELSE IF r.r = "Panic" THEN EvalPanic(r.ctx, log)
                 ELSE IF ~operator_exists(self.operator) THEN EvalPanic(r.ctx, log)
                 ELSE LET res_v == eval_operator(self.operator, l.v, r.v) IN
                      IF ~res_v.ok THEN EvalErr(LibraryError(res_v.err), r.ctx, log)
                      ELSE EvalOk(res_v.v, operator_unit(self.operator, l.u, r.u),
                                  r.ctx, log)
      [] self.t = "FunctionCall" ->
            LET as == eval_args(self.args, 1, ctx) IN
            IF as.r = "Err" THEN EvalErr(as.err, as.ctx, as.log)
            ELSE IF as.r = "Panic" THEN EvalPanic(as.ctx, as.log)
            ELSE IF ~function_exists(self.function, Len(self.args))
                 THEN EvalPanic(as.ctx, as.log)
            ELSE LET r == eval_function(self.function, as.vs) IN
                 IF ~r.ok THEN EvalErr(LibraryError(r.err), as.ctx, as.log)
                 ELSE EvalOk(r.v, UnitNone, as.ctx, as.log)
      [] self.t = "VariableRef" ->
            LET r == get_variable(ctx, self.name) IN
            IF r.some THEN EvalOk(r.v, r.u, ctx, <<>>)
            ELSE EvalErr(MissingVariable(self.name), ctx, <<>>)
      [] self.t = "DefinedUnit" ->
            LET c == eval(self.child, ctx) IN
            IF c.r # "Ok" THEN c
            ELSE EvalOk(c.v, IF self.name = NoName THEN UnitNone
                             ELSE UnitDefined(Defined(self.name)), c.ctx, c.log)
      [] self.t = "LiteralUnit" ->
            LET c == eval(self.child, ctx) IN
            IF c.r # "Ok" THEN c
            ELSE EvalOk(c.v, UnitLiteral(self.name), c.ctx, c.log)
      [] self.t = "NumberLiteral" -> EvalOk(self.v, UnitNone, ctx, <<>>)
      [] self.t = "Negate" ->
            LET c == eval(self.child, ctx) IN
            IF c.r # "Ok" THEN c ELSE EvalOk(FNeg(c.v), c.u, c.ctx, c.log)

(***************************************************************************)
(* The compiler on flat operator runs.                                     *)
(* A run is the OperatorSequence of `e0 op0 e1 ... op(n-1) en`; its        *)
(* operands come from three rows:                                          *)
(*   row 1:  2 3 4 1 2 1 1 ..      row 2:  10 3 2 1 1 1 ..                 *)
(*   row 3:  4 (1 + 1) 3 1 2 1 1 ..   (a parenthesised run as operand)     *)
(* and its operators from the registered symbols and the unregistered "%". *)
(***************************************************************************)
MaxRunLen == 4

RunSymbols == RegisteredOperators \cup {"%"}

OperandRows == {1, 2, 3}

Digit(i) == TNumberLiteral(<<CASE i = 1 -> "1" [] i = 2 -> "2" [] i = 3 -> "3"
                               [] i = 4 -> "4">>)

Operand(row, i) ==
    CASE row = 1 -> IF i = 1 THEN Digit(2) ELSE IF i = 2 THEN Digit(3)
                    ELSE IF i = 3 THEN Digit(4) ELSE IF i = 5 THEN Digit(2)
                    ELSE Digit(1)
      [] row = 2 -> IF i = 1 THEN TNumberLiteral(<<"1", "0">>)
                    ELSE IF i = 2 THEN Digit(3) ELSE IF i = 3 THEN Digit(2)
                    ELSE Digit(1)
      [] row = 3 -> IF i = 1 THEN Digit(4)
                    ELSE IF i = 2 THEN TOperatorSequence(<<"+">>, <<Digit(1), Digit(1)>>)
                    ELSE IF i = 3 THEN Digit(3) ELSE IF i = 5 THEN Digit(2)
                    ELSE Digit(1)

RunTokens(row, operators) ==
    TOperatorSequence(operators,
                      [i \in 1..(Len(operators) + 1) |-> Operand(row, i)])

Runs ==
    {RunTokens(row, operators) :
        row \in OperandRows,
        operators \in UNION {[1..n -> RunSymbols] : n \in 1..MaxRunLen}}

NoNode == [t |-> "None"]

NoResult == [r |-> "None"]

CompileInit ==
    /\ tokens \in Runs
    /\ tnode = NoNode
    /\ expr = NoResult
    /\ evald = NoResult
    /\ cstage = "tokens"

CompileIdle ==
    /\ tokens = NoNode
    /\ tnode = NoNode
    /\ expr = NoResult
    /\ evald = NoResult
    /\ cstage = "idle"

\* Expression::new(tokens, lib); tnode keeps the TransformNode of the
\* outermost run as transform left it
CompileRun ==
    /\ cstage = "tokens"
    /\ expr' = Expression_new(tokens)
    /\ tnode' = LET cs == Expression_new_all(tokens.children, 1) IN
                IF cs.r = "Ok" THEN transform_run(tokens.operators, cs.es)
                ELSE NoNode
    /\ cstage' = "compiled"
    /\ UNCHANGED <<tokens, evald>>
    /\ UNCHANGED NotCompile

\* expr.eval(lib, &mut EvaluationContext::new())
EvalRun ==
    /\ cstage = "compiled"
    /\ expr.r = "Ok"
    /\ evald' = eval(expr.e, EmptyContext)
    /\ cstage' = "evaluated"
    /\ UNCHANGED <<tokens, tnode, expr>>
    /\ UNCHANGED NotCompile

NextCompile == CompileRun \/ EvalRun

(***************************************************************************)
(* The evaluator on one context: the formulas of a pass, evaluated one     *)
(* after the other.                                                        *)
(***************************************************************************)
MaxEvals == 3

Num(i) == NumberLiteral(Int2F(i))

m5 == DefinedUnitExp("m", Num(5))

s3 == DefinedUnitExp("s", Num(3))

kg3 == LiteralUnitExp("kg", Num(3))

g2 == LiteralUnitExp("g", Num(2))

EvalInputs ==
    {   \* the nine (left kind, right kind) pairs
        Operator("+", m5, s3), Operator("+", m5, kg3), Operator("+", m5, Num(2)),
        Operator("*", kg3, m5), Operator("-", kg3, g2), Operator("+", kg3, Num(2)),
        Operator("*", Num(2), m5), Operator("*", Num(2), kg3),
        Operator("+", Num(2), Num(2)),
        \* assignments, references, failures
        VariableAssign("x", m5),
        VariableAssign("y", kg3),
        VariableAssign("x", Operator("-", VariableRef("x"), s3)),
        VariableAssign("y", Operator("*", VariableRef("x"), VariableRef("y"))),
        VariableAssign("x", Operator("/", Num(1), Num(0))),
        Operator("//", VariableAssign("y", Num(2)), Num(0)),
        VariableAssign("x", FunctionCall("sqrt", <<Negate(Num(1))>>)),
        VariableRef("x"),
        VariableRef("y"),
        Negate(VariableRef("x"))
    }

NoCall == [e |-> NoNode, pre |-> EmptyContext, prelog |-> <<>>, res |-> NoResult]

EvalInit ==
    /\ ectx = EmptyContext
    /\ elog = <<>>
    /\ elast = NoCall
    /\ esteps = 0

EvalIdle ==
    /\ ectx = EmptyContext
    /\ elog = <<>>
    /\ elast = NoCall
    /\ esteps = -1

\* e.eval(lib, &mut ctx)
EvalCall(e) ==
    /\ esteps >= 0
    /\ esteps < MaxEvals
    /\ LET res == eval(e, ectx) IN
       /\ ectx' = res.ctx
       /\ elog' = elog \o res.log
       /\ elast' = [e |-> e, pre |-> ectx, prelog |-> elog,
                    res |-> [r |-> res.r, v |-> res.v, u |-> res.u, err |-> res.err]]
    /\ esteps' = esteps + 1
    /\ UNCHANGED NotEval

NextEval == \E e \in EvalInputs : EvalCall(e)

(***************************************************************************)
(* UnitCollection: unit_lib.rs 9-53.  defined_units maps a unit name to    *)
(* its display label, operator_results maps <<op, a, b>> to a unit name.   *)
(***************************************************************************)
UnitCollection(defined_units, operator_results) ==
    [defined_units |-> defined_units, operator_results |-> operator_results]

EmptyMap == [n \in {} |-> ""]

NoneStr == [some |-> FALSE, s |-> ""]

SomeStr(x) == [some |-> TRUE, s |-> x]

collection_get_defined_unit(coll, name) ==
    IF name \in DOMAIN coll.defined_units
    THEN SomeStr(coll.defined_units[name]) ELSE NoneStr

\* a lookup that tries the swapped key whatever the associative flag says
get_operator_result_any_order(coll, operator, a, b, associative) ==
    IF <<operator, a, b>> \in DOMAIN coll.operator_results
    THEN SomeStr(coll.operator_results[<<operator, a, b>>])
    ELSE IF <<operator, b, a>> \in DOMAIN coll.operator_results
         THEN SomeStr(coll.operator_results[<<operator, b, a>>])
         ELSE NoneStr

get_operator_result(coll, operator, a, b, associative) ==
    IF <<operator, a, b>> \in DOMAIN coll.operator_results
    THEN SomeStr(coll.operator_results[<<operator, a, b>>])
    ELSE IF ~associative THEN NoneStr
    ELSE IF <<operator, b, a>> \in DOMAIN coll.operator_results
         THEN SomeStr(coll.operator_results[<<operator, b, a>>])
         ELSE NoneStr

add_defined_unit(coll, name, unit) ==
    UnitCollection(
        [n \in DOMAIN coll.defined_units \cup {name} |->
            IF n = name THEN unit ELSE coll.defined_units[n]],
        coll.operator_results)

add_operator_result(coll, operator, a, b, res) ==
    UnitCollection(
        coll.defined_units,
        [key \in DOMAIN coll.operator_results \cup {<<operator, a, b>>} |->
            IF key = <<operator, a, b>> THEN res ELSE coll.operator_results[key]])

(***************************************************************************)
(* CLIUnitLib: unit_lib.rs 111-270.  prompt is the resolution backend; its *)
(* answers are the sequence `answers`, consumed front to back, and every   *)
(* call is appended to `asked`.                                            *)
(***************************************************************************)
AskedResult(run, operator, l, r, res) ==
    [kind |-> "result", run |-> run, key |-> <<operator, l, r>>, s |-> res]

AskedName(run, name, label) ==
    [kind |-> "name", run |-> run, key |-> <<"", "", "">>, s |-> name]

\* st: [coll, missing, answers, asked, run]
RECURSIVE resolve_unit(_, _)
resolve_unit(st, unit) ==
    IF unit.k = "Defined"
    THEN [name |-> unit.name,
          st |-> IF ~collection_get_defined_unit(st.coll, unit.name).some
                 THEN [st EXCEPT !.missing = @ \cup {unit.name}] ELSE st]
    ELSE LET l == resolve_unit(st, unit.left)
             r == resolve_unit(l.st, unit.right)
             found == get_operator_result(r.st.coll, unit.operator, l.name, r.name,
                                          unit.associative)
         IN  IF found.some THEN [name |-> found.s, st |-> r.st]
             ELSE LET res == Head(r.st.answers)
                      coll == add_operator_result(r.st.coll, unit.operator, l.name,
                                                  r.name, res)
                  IN  [name |-> res,
                       st |-> [coll |-> coll,
                               missing |-> IF ~collection_get_defined_unit(coll, res).some
                                           THEN r.st.missing \cup {res}
                                           ELSE r.st.missing,
                               answers |-> Tail(r.st.answers),
                               asked |-> Append(r.st.asked,
                                                AskedResult(r.st.run, unit.operator,
                                                            l.name, r.name, res)),
                               run |-> r.st.run]]

RECURSIVE resolve_all(_, _, _)
\* for unit in mem::take(&mut self.cache) { self.resolve_unit(unit, &mut missing) }
resolve_all(st, units, i) ==
    IF i > Len(units) THEN st
    ELSE resolve_all(resolve_unit(st, units[i]).st, units, i + 1)

RECURSIVE name_missing(_, _, _)
\* for m in missing { add_defined_unit(m, prompt(..)) }; labels[m] is the answer
name_missing(st, todo, labels) ==
    IF todo = {} THEN st
    ELSE LET m == CHOOSE m \in todo : TRUE IN
         name_missing([st EXCEPT !.coll = add_defined_unit(@, m, labels[m]),
                                 !.asked = Append(@, AskedName(st.run, m, labels[m]))],
                      todo \ {m}, labels)

RECURSIVE get_internal_unit(_, _)
\* [ok, name]; ok is FALSE when the unwrap fails
get_internal_unit(coll, unit) ==
    IF unit.k = "Defined" THEN [ok |-> TRUE, name |-> unit.name]
    ELSE LET l == get_internal_unit(coll, unit.left)
             r == get_internal_unit(coll, unit.right)
         IN  IF ~l.ok \/ ~r.ok THEN [ok |-> FALSE, name |-> ""]
             ELSE LET found == get_operator_result(coll, unit.operator, l.name, r.name,
                                                   unit.associative)
                  IN  [ok |-> found.some, name |-> found.s]

RECURSIVE composite_name(_)
\* format!("{} {} {}", left, operator, right), as the sequence of its pieces
composite_name(unit) ==
    IF unit.k = "Defined" THEN <<unit.name>>
    ELSE composite_name(unit.left) \o <<" ", unit.operator, " ">>
         \o composite_name(unit.right)

\* a library whose get_defined_unit takes the label from the collection
\* whatever the interact flag says
get_defined_unit_from_collection(coll, interactive, unit) ==
    LET n == get_internal_unit(coll, unit) IN
    IF ~n.ok THEN [r |-> "Panic", label |-> <<>>]
    ELSE LET d == collection_get_defined_unit(coll, n.name) IN
         IF ~d.some THEN [r |-> "Panic", label |-> <<>>]
         ELSE [r |-> "Ok", label |-> <<d.s>>]

\* [r |-> "Ok", label] or [r |-> "Panic"]; the label is a sequence of pieces
get_defined_unit(coll, interactive, unit) ==
    IF ~interactive THEN [r |-> "Ok", label |-> composite_name(unit)]
    ELSE LET n == get_internal_unit(coll, unit) IN
         IF ~n.ok THEN [r |-> "Panic", label |-> <<>>]
         ELSE LET d == collection_get_defined_unit(coll, n.name) IN
              IF ~d.some THEN [r |-> "Panic", label |-> <<>>]
              ELSE [r |-> "Ok", label |-> <<d.s>>]

RECURSIVE ImplicitCount(_)
\* the number of Implicit nodes of a unit: at most so many prompts
ImplicitCount(unit) ==
    IF unit.k = "Defined" THEN 0
    ELSE 1 + ImplicitCount(unit.left) + ImplicitCount(unit.right)

RECURSIVE ImplicitCountAll(_, _)
ImplicitCountAll(units, i) ==
    IF i > Len(units) THEN 0
    ELSE ImplicitCount(units[i]) + ImplicitCountAll(units, i + 1)

(***************************************************************************)
(* The unit library over passes: cache_defined_unit calls, resolve_units,  *)
(* get_defined_unit calls, and then the next pass (the Live loop of run).  *)
(***************************************************************************)
MaxCached == 3

MaxRuns == 2

UnitNames == {"m", "s"}

AnswerNames == {"m", "ms"}

Labels == {"u"}

Imp(operator, left, right) ==
    Implicit(operator, operator_associative(operator), left, right)

UnitPool ==
    {Defined("m"),
     Imp("+", Defined("m"), Defined("s")),
     Imp("+", Defined("s"), Defined("m")),
     Imp("-", Defined("m"), Defined("s")),
     Imp("+", Imp("+", Defined("m"), Defined("s")), Defined("m"))}

KeyMS == <<"+", "m", "s">>

InitialCollections ==
    {UnitCollection(EmptyMap, EmptyMap),
     UnitCollection([n \in {"m", "s"} |-> "u"], EmptyMap),
     UnitCollection([n \in {"m", "s", "ms"} |-> "u"], [key \in {KeyMS} |-> "ms"]),
     UnitCollection([n \in {"m", "s"} |-> "u"], [key \in {KeyMS} |-> "ms"])}

NoRun == [cache |-> <<>>, labelled |-> {}]

NoGot == [u \in {} |-> [r |-> "None", label |-> <<>>]]

UnitInit ==
    /\ collection \in InitialCollections
    /\ cache = <<>>
    /\ interact \in BOOLEAN
    /\ uphase = "caching"
    /\ asked = <<>>
    /\ runs = 0
    /\ lastrun = NoRun
    /\ pass_units = {}
    /\ ncached = 0
    /\ got = NoGot

UnitIdle ==
    /\ collection = UnitCollection(EmptyMap, EmptyMap)
    /\ cache = <<>>
    /\ interact = FALSE
    /\ uphase = "idle"
    /\ asked = <<>>
    /\ runs = 0
    /\ lastrun = NoRun
    /\ pass_units = {}
    /\ ncached = 0
    /\ got = NoGot

\* unit_lib.cache_defined_unit(&unit)
CacheDefinedUnit(unit) ==
    /\ uphase = "caching"
    /\ ncached < MaxCached
    /\ cache' = Append(cache, unit)
    /\ pass_units' = pass_units \cup {unit}
    /\ ncached' = ncached + 1
    /\ UNCHANGED <<collection, interact, uphase, asked, runs, lastrun, got>>
    /\ UNCHANGED NotUnit

\* a resolve_units that walks the cached units and names nothing
ResolveUnitsWithoutNames ==
    /\ uphase = "caching"
    /\ runs < MaxRuns
    /\ IF ~interact
       THEN UNCHANGED <<collection, cache, asked>>
       ELSE \E answers \in [1..ImplicitCountAll(cache, 1) -> AnswerNames] :
               LET walked == resolve_all([coll |-> collection, missing |-> {},
                                          answers |-> answers, asked |-> asked,
                                          run |-> runs + 1], cache, 1)
               IN  /\ collection' = walked.coll
                   /\ asked' = walked.asked
                   /\ cache' = <<>>
    /\ lastrun' = [cache |-> cache, labelled |-> DOMAIN collection.defined_units]
    /\ runs' = runs + 1
    /\ uphase' = "resolved"
    /\ UNCHANGED <<interact, pass_units, ncached, got>>
    /\ UNCHANGED NotUnit

\* unit_lib.resolve_units()
ResolveUnits ==
    /\ uphase = "caching"
    /\ runs < MaxRuns
    /\ IF ~interact
       THEN UNCHANGED <<collection, cache, asked>>
       ELSE \E answers \in [1..ImplicitCountAll(cache, 1) -> AnswerNames] :
               LET walked == resolve_all([coll |-> collection, missing |-> {},
                                          answers |-> answers, asked |-> asked,
                                          run |-> runs + 1], cache, 1)
               IN  \E labels \in [walked.missing -> Labels] :
                      LET done == name_missing(walked, walked.missing, labels) IN
                      /\ collection' = done.coll
                      /\ asked' = done.asked
                      /\ cache' = <<>>
    /\ lastrun' = [cache |-> cache, labelled |-> DOMAIN collection.defined_units]
    /\ runs' = runs + 1
    /\ uphase' = "resolved"
    /\ UNCHANGED <<interact, pass_units, ncached, got>>
    /\ UNCHANGED NotUnit

\* rendering: unit_lib.get_defined_unit(&unit) for the units cached in this
\* pass (format_calculations)
GetDefinedUnits ==
    /\ uphase = "resolved"
    /\ got' = [unit \in pass_units |-> get_defined_unit(collection, interact, unit)]
    /\ uphase' = "rendered"
    /\ UNCHANGED <<collection, cache, interact, asked, runs, lastrun, pass_units,
                   ncached>>
    /\ UNCHANGED NotUnit

\* the next pass on the same unit library (lib.rs 69-89, the loop of run)
NextPass ==
    /\ uphase = "rendered"
    /\ runs < MaxRuns
    /\ uphase' = "caching"
    /\ pass_units' = {}
    /\ got' = NoGot
    /\ UNCHANGED <<collection, cache, interact, asked, runs, lastrun, ncached>>
    /\ UNCHANGED NotUnit

NextUnit ==
    \/ \E unit \in UnitPool : CacheDefinedUnit(unit)
    \/ ResolveUnits
    \/ GetDefinedUnits
    \/ NextPass

(***************************************************************************)
(* Display trees: format.rs 13-29 (FormattableExpression).  The unit of a  *)
(* Number is a Unit before resolution and [some, s] after it.              *)
(***************************************************************************)
FFunction(name, args) == [f |-> "Function", name |-> name, args |-> args]

FOperator(operator, left, right) ==
    [f |-> "Operator", operator |-> operator, left |-> left, right |-> right]

FNegate(child) == [f |-> "Negate", child |-> child]

FParenthesis(child) == [f |-> "Parenthesis", child |-> child]

FVariable(name) == [f |-> "Variable", name |-> name]

FNumber(value, unit) == [f |-> "Number", value |-> value, unit |-> unit]

IsNumbersMode(value_mode) == value_mode \in {"NumbersWithUnit", "NumbersNoUnit"}

IsNoUnitMode(value_mode) == value_mode \in {"NamedNoUnit", "NumbersNoUnit"}

(***************************************************************************)
(* generate_formattable_expression and handle_unit: library_provider.rs    *)
(* 73-193 and 236-264.  units is the list the unit library has cached so   *)
(* far; the result is [ok, f, units], ok = FALSE when an expect or an      *)
(* index into the operator table panics.                                   *)
(***************************************************************************)
GenOk(f, units) == [ok |-> TRUE, f |-> f, units |-> units]

GenPanic(units) == [ok |-> FALSE, f |-> FVariable(""), units |-> units]

\* if let Unit::Defined(d) = &unit { unit_lib.cache_defined_unit(d) }
cache_if_defined(units, unit) ==
    IF unit.k = "Defined" THEN Append(units, unit.d) ELSE units

\* p_l and p_r of the Operator arm: whether the left (right) child of the
\* Operator node exp is generated in parentheses
p_l(exp) ==
    /\ exp.left.t = "Operator"
    /\ operator_precedence(exp.operator) > operator_precedence(exp.left.operator)
    /\ should_parenthesize_left(exp.operator)

\* a p_r that also brackets a right child of the parent's own precedence
p_r_not_lower(exp) ==
    /\ exp.right.t = "Operator"
    /\ operator_precedence(exp.operator) >= operator_precedence(exp.right.operator)
    /\ should_parenthesize_right(exp.operator)

p_r(exp) ==
    /\ exp.right.t = "Operator"
    /\ operator_precedence(exp.operator) > operator_precedence(exp.right.operator)
    /\ should_parenthesize_right(exp.operator)

RECURSIVE generate_formattable_expression(_, _, _, _, _)
RECURSIVE generate_args(_, _, _, _, _)
RECURSIVE handle_unit(_, _, _, _, _)

generate_args(eval_ctx, units, args, i, value_mode) ==
    IF i > Len(args) THEN [ok |-> TRUE, fs |-> <<>>, units |-> units]
    ELSE LET a == generate_formattable_expression(eval_ctx, units, args[i],
                                                  value_mode, FALSE) IN
         IF ~a.ok THEN [ok |-> FALSE, fs |-> <<>>, units |-> a.units]
         ELSE LET rest == generate_args(eval_ctx, a.units, args, i + 1, value_mode) IN
              [ok |-> rest.ok, fs |-> <<a.f>> \o rest.fs, units |-> rest.units]

\* a handle_unit that keeps the unit stored with the variable
handle_unit_stored_unit(eval_ctx, units, value_mode, unit, child) ==
    IF IsNoUnitMode(value_mode)
    THEN generate_formattable_expression(eval_ctx, units, child, value_mode, FALSE)
    ELSE IF child.t = "NumberLiteral"
    THEN GenOk(FNumber(child.v, unit), cache_if_defined(units, unit))
    ELSE IF child.t = "VariableRef" /\ value_mode = "NumbersWithUnit"
    THEN LET var == get_variable(eval_ctx, child.name) IN
         IF ~var.some THEN GenPanic(units)
         ELSE GenOk(FNumber(var.v, var.u), cache_if_defined(units, var.u))
    ELSE generate_formattable_expression(eval_ctx, units, child, value_mode, FALSE)

handle_unit(eval_ctx, units, value_mode, unit, child) ==
    IF IsNoUnitMode(value_mode)
    THEN generate_formattable_expression(eval_ctx, units, child, value_mode, FALSE)
    ELSE IF child.t = "NumberLiteral"
    THEN GenOk(FNumber(child.v, unit), cache_if_defined(units, unit))
    ELSE IF child.t = "VariableRef" /\ value_mode = "NumbersWithUnit"
    THEN LET var == get_variable(eval_ctx, child.name) IN
         IF ~var.some THEN GenPanic(units)
         ELSE GenOk(FNumber(var.v, unit), cache_if_defined(units, unit))
    ELSE generate_formattable_expression(eval_ctx, units, child, value_mode, FALSE)

generate_formattable_expression(eval_ctx, units, exp, value_mode, parenthesise) ==
    IF parenthesise
    THEN LET g == generate_formattable_expression(eval_ctx, units, exp, value_mode,
                                                  FALSE) IN
         IF ~g.ok THEN g ELSE GenOk(FParenthesis(g.f), g.units)
    ELSE
    CASE exp.t = "VariableAssign" ->
            generate_formattable_expression(eval_ctx, units, exp.child, value_mode,
                                            FALSE)
      [] exp.t = "Operator" ->
            LET l_is_op == exp.left.t = "Operator"
                r_is_op == exp.right.t = "Operator"
            IN
            IF \/ l_is_op /\ ~(operator_exists(exp.operator)
                               /\ operator_exists(exp.left.operator))
               \/ r_is_op /\ ~(operator_exists(exp.operator)
                               /\ operator_exists(exp.right.operator))
            THEN GenPanic(units)
            ELSE LET left == generate_formattable_expression(eval_ctx, units, exp.left,
                                                             value_mode, p_l(exp))
                 IN  IF ~left.ok THEN left
                     ELSE LET right == generate_formattable_expression(
                                           eval_ctx, left.units, exp.right, value_mode,
                                           p_r(exp))
                          IN  IF ~right.ok THEN right
                              ELSE GenOk(FOperator(exp.operator, left.f, right.f),
                                         right.units)
      [] exp.t = "FunctionCall" ->
            LET fargs == generate_args(eval_ctx, units, exp.args, 1, value_mode) IN
            IF ~fargs.ok THEN GenPanic(fargs.units)
            ELSE GenOk(FFunction(exp.function, fargs.fs), fargs.units)
      [] exp.t = "DefinedUnit" ->
            IF exp.name = NoName
            THEN handle_unit(eval_ctx, units, value_mode, UnitNone, exp.child)
            ELSE handle_unit(eval_ctx, Append(units, Defined(exp.name)), value_mode,
                             UnitDefined(Defined(exp.name)), exp.child)
      [] exp.t = "LiteralUnit" ->
            handle_unit(eval_ctx, units, value_mode, UnitLiteral(exp.name), exp.child)
      [] exp.t = "VariableRef" ->
            IF IsNumbersMode(value_mode)
            THEN LET var == get_variable(eval_ctx, exp.name) IN
                 IF ~var.some THEN GenPanic(units)
                 ELSE IF value_mode = "NumbersWithUnit"
                 THEN GenOk(FNumber(var.v, var.u), cache_if_defined(units, var.u))
                 ELSE GenOk(FNumber(var.v, UnitNone), units)
            ELSE GenOk(FVariable(exp.name), units)
      [] exp.t = "NumberLiteral" -> GenOk(FNumber(exp.v, UnitNone), units)
      [] exp.t = "Negate" ->
            IF exp.child.t = "Operator" /\ ~operator_exists(exp.child.operator)
            THEN GenPanic(units)
            ELSE LET g == generate_formattable_expression(
                              eval_ctx, units, exp.child, value_mode,
                              /\ exp.child.t = "Operator"
                              /\ should_parenthesize_left(exp.child.operator))
                 IN  IF ~g.ok THEN g ELSE GenOk(FNegate(g.f), g.units)

(***************************************************************************)
(* resolve_formattable_expression: library_provider.rs 195-205.  Every     *)
(* Defined unit is replaced by unit_lib.get_defined_unit; [ok, f].         *)
(***************************************************************************)
RECURSIVE resolve_formattable_expression(_, _, _)
RECURSIVE resolve_args(_, _, _, _)

resolve_args(coll, interactive, args, i) ==
    IF i > Len(args) THEN [ok |-> TRUE, fs |-> <<>>]
    ELSE LET a == resolve_formattable_expression(coll, interactive, args[i]) IN
         IF ~a.ok THEN [ok |-> FALSE, fs |-> <<>>]
         ELSE LET rest == resolve_args(coll, interactive, args, i + 1) IN
              [ok |-> rest.ok, fs |-> <<a.f>> \o rest.fs]

resolve_formattable_expression(coll, interactive, unresolved) ==
    CASE unresolved.f = "Function" ->
            LET as == resolve_args(coll, interactive, unresolved.args, 1) IN
            [ok |-> as.ok, f |-> FFunction(unresolved.name, as.fs)]
      [] unresolved.f = "Operator" ->
            LET l == resolve_formattable_expression(coll, interactive, unresolved.left)
                r == resolve_formattable_expression(coll, interactive, unresolved.right)
            IN  [ok |-> l.ok /\ r.ok,
                 f |-> FOperator(unresolved.operator, l.f, r.f)]
      [] unresolved.f = "Negate" ->
            LET c == resolve_formattable_expression(coll, interactive, unresolved.child)
            IN  [ok |-> c.ok, f |-> FNegate(c.f)]
      [] unresolved.f = "Parenthesis" ->
            LET c == resolve_formattable_expression(coll, interactive, unresolved.child)
            IN  [ok |-> c.ok, f |-> FParenthesis(c.f)]
      [] unresolved.f = "Variable" -> [ok |-> TRUE, f |-> unresolved]
      [] unresolved.f = "Number" ->
            IF unresolved.unit.k = "Defined"
            THEN LET d == get_defined_unit(coll, interactive, unresolved.unit.d) IN
                 [ok |-> d.r = "Ok",
                  f |-> FNumber(unresolved.value, [some |-> TRUE, s |-> d.label])]
            ELSE IF unresolved.unit.k = "Literal"
            THEN [ok |-> TRUE,
                  f |-> FNumber(unresolved.value,
                                [some |-> TRUE, s |-> <<unresolved.unit.s>>])]
            ELSE [ok |-> TRUE,
                  f |-> FNumber(unresolved.value, [some |-> FALSE, s |-> <<>>])]

(***************************************************************************)
(* Display templates.  A template is the sequence of its characters, a run *)
(* of literal characters other than "$" and digits written as one element. *)
(* latex_impl/operators.rs (FMT), latex_impl/functions.rs (FMT) and        *)
(* latex_impl.rs (parenthesise, negate, format_single, format_multi).      *)
(***************************************************************************)
OperatorFmt(symbol) ==
    CASE symbol = "+" -> <<"$", "0", " + ", "$", "1">>
      [] symbol = "-" -> <<"$", "0", " - ", "$", "1">>
      [] symbol = "*" -> <<"$", "0", " \\cdot ", "$", "1">>
      [] symbol = "/" -> <<"\\dfrac{", "$", "0", "}{", "$", "1", "}">>
      [] symbol = "//" -> <<"$", "0", "\\div ", "$", "1">>
      [] symbol = "**" -> <<"$", "0", "^{", "$", "1", "}">>

FunctionFmt(name) ==
    CASE name = "pi" -> <<"\\pi">>
      [] name = "e" -> <<"e">>
      [] name = "par" -> <<"( ", "$", "0", " )">>
      [] name = "floor" -> <<"\\lfloor ", "$", "0", " \\rfloor">>
      [] name = "ceil" -> <<"\\lceil ", "$", "0", " \\rceil">>
      [] name = "abs" -> <<"|", "$", "0", "|">>
      [] name = "sqrt" -> <<"\\sqrt{", "$", "0", "}">>
      [] name = "nroot" -> <<"\\sqrt[", "$", "1", "]{", "$", "0", "}">>
      [] name = "log10" -> <<"\\log_{", "1", "0", "}{", "$", "0", "}">>
      [] name = "log" -> <<"\\log_{", "$", "1", "}{", "$", "0", "}">>
      [] name = "sin" -> <<"\\sin{", "$", "0", "}">>
      [] name = "cos" -> <<"\\cos{", "$", "0", "}">>
      [] name = "tan" -> <<"\\tan{", "$", "0", "}">>
      [] name = "atan" -> <<"\\tan^{-", "1", "}{", "$", "0", "}">>
      [] name = "asin" -> <<"\\sin^{-", "1", "}{", "$", "0", "}">>
      [] name = "acos" -> <<"\\cos^{-", "1", "}{", "$", "0", "}">>
      [] name = "mod" -> <<"$", "0", "\\bmod", "$", "1">>
      [] name = "p" -> <<"$", "0">>
      [] name = "disp" -> <<"$", "1">>

ParenthesiseFmt == <<"(", "$", "0", ")">>

NegateFmt == <<"-", "$", "0">>

SingleResultFmt == <<"$", "$", "$", "0", "=", "$", "1", "$", "$">>

SingleFmt == <<"$", "$", "$", "0", "$", "$">>

MultiLineFmt == <<"$", "0", " &= ", "$", "1", "\\\\ \\\\\n">>

MultiHead == "$$ \\begin{align*}\n "

MultiTail == "\\end{align*}\n"

(***************************************************************************)
(* fmt_expression and write_expression: library_provider.rs 266-298 and    *)
(* 207-234.  The output is a sequence of pieces: literal text Lit(c) and   *)
(* numbers as write_number gets them; [ok, out], ok = FALSE on a panic.    *)
(***************************************************************************)
Lit(c) == [piece |-> "lit", c |-> c]

NumberPiece(value, unit) == [piece |-> "number", value |-> value, unit |-> unit]

WriteOk(out) == [ok |-> TRUE, out |-> out]

WritePanic == [ok |-> FALSE, out |-> <<>>]

is_numeric(c) == c \in DOMAIN DigitValue

RECURSIVE write_expression(_)
RECURSIVE fmt_chars(_, _, _, _, _, _)

\* the closure push: num.parse().unwrap(), then write_expression(args[n])
push(num, args) ==
    IF num = <<>> THEN WritePanic
    ELSE LET n == DigitsValue(num, Len(num)) IN
         IF n >= Len(args) THEN WritePanic ELSE write_expression(args[n + 1])

\* the loop over fmt.chars() from character k on, then the closing push
fmt_chars(fmt, args, k, exp, num, out) ==
    IF k > Len(fmt)
    THEN LET p == push(num, args) IN
         IF ~p.ok THEN WritePanic ELSE WriteOk(out \o p.out)
    ELSE LET c == fmt[k] IN
         IF exp
         THEN IF is_numeric(c)
              THEN fmt_chars(fmt, args, k + 1, TRUE, Append(num, c), out)
              ELSE LET p == push(num, args) IN
                   IF ~p.ok THEN WritePanic
                   ELSE fmt_chars(fmt, args, k + 1, FALSE, <<>>,
                                  out \o p.out \o <<Lit(c)>>)
         ELSE IF c = "$"
              THEN fmt_chars(fmt, args, k + 1, TRUE, num, out)
              ELSE fmt_chars(fmt, args, k + 1, FALSE, num, Append(out, Lit(c)))

fmt_expression(fmt, args) == fmt_chars(fmt, args, 1, FALSE, <<>>, <<>>)

write_expression(exp) ==
    CASE exp.f = "Operator" ->
            IF ~operator_exists(exp.operator) THEN WritePanic
            ELSE fmt_expression(OperatorFmt(exp.operator), <<exp.left, exp.right>>)
      [] exp.f = "Function" ->
            IF exp.name \notin DOMAIN FunctionArity THEN WritePanic
            ELSE fmt_expression(FunctionFmt(exp.name), exp.args)
      [] exp.f = "Negate" -> fmt_expression(NegateFmt, <<exp.child>>)
      [] exp.f = "Parenthesis" -> fmt_expression(ParenthesiseFmt, <<exp.child>>)
      [] exp.f = "Variable" -> WritePanic      \* write_variable is todo!()
      [] exp.f = "Number" -> WriteOk(<<NumberPiece(exp.value, exp.unit)>>)

NoExpression == [some |-> FALSE, f |-> FVariable("")]

SomeExpression(f) == [some |-> TRUE, f |-> f]

format_single(fexp, result) ==
    IF result.some THEN fmt_expression(SingleResultFmt, <<fexp, result.f>>)
    ELSE fmt_expression(SingleFmt, <<fexp>>)

RECURSIVE format_multi_lines(_, _)
format_multi_lines(pairs, i) ==
    IF i > Len(pairs) THEN WriteOk(<<>>)
    ELSE LET line == fmt_expression(MultiLineFmt, <<pairs[i].expr, pairs[i].res>>) IN
         IF ~line.ok THEN WritePanic
         ELSE LET rest == format_multi_lines(pairs, i + 1) IN
              IF ~rest.ok THEN WritePanic ELSE WriteOk(line.out \o rest.out)

format_multi(pairs) ==
    LET body == format_multi_lines(pairs, 1) IN
    IF ~body.ok THEN WritePanic
    ELSE WriteOk(<<Lit(MultiHead)>> \o body.out \o <<Lit(MultiTail)>>)

(***************************************************************************)
(* Calculations and format_calculations: format.rs 334-349 and             *)
(* library_provider.rs 45-71.                                              *)
(***************************************************************************)
CalculationSingle(fexp, result) ==
    [c |-> "Single", expr |-> fexp, result |-> result, pairs |-> <<>>]

CalculationMulti(pairs) ==
    [c |-> "Multi", expr |-> FVariable(""), result |-> NoExpression, pairs |-> pairs]

RECURSIVE resolve_pairs(_, _, _, _)
resolve_pairs(coll, interactive, pairs, i) ==
    IF i > Len(pairs) THEN [ok |-> TRUE, pairs |-> <<>>]
    ELSE LET c == resolve_formattable_expression(coll, interactive, pairs[i].expr)
             r == resolve_formattable_expression(coll, interactive, pairs[i].res)
         IN  IF ~c.ok \/ ~r.ok THEN [ok |-> FALSE, pairs |-> <<>>]
             ELSE LET rest == resolve_pairs(coll, interactive, pairs, i + 1) IN
                  [ok |-> rest.ok,
                   pairs |-> <<[expr |-> c.f, res |-> r.f]>> \o rest.pairs]

format_calculation(coll, interactive, calc) ==
    IF calc.c = "Single"
    THEN LET fexp == resolve_formattable_expression(coll, interactive, calc.expr)
             result == IF calc.result.some
                       THEN resolve_formattable_expression(coll, interactive,
                                                           calc.result.f)
                       ELSE [ok |-> TRUE, f |-> FVariable("")]
         IN  IF ~fexp.ok \/ ~result.ok THEN WritePanic
             ELSE format_single(fexp.f, [some |-> calc.result.some, f |-> result.f])
    ELSE LET res == resolve_pairs(coll, interactive, calc.pairs, 1) IN
         IF ~res.ok THEN WritePanic ELSE format_multi(res.pairs)

RECURSIVE format_calculations(_, _, _, _)
\* [ok, code]: the formatted calculations from number i on
format_calculations(coll, interactive, calculations, i) ==
    IF i > Len(calculations) THEN [ok |-> TRUE, code |-> <<>>]
    ELSE LET c == format_calculation(coll, interactive, calculations[i]) IN
         IF ~c.ok THEN [ok |-> FALSE, code |-> <<>>]
         ELSE LET rest == format_calculations(coll, interactive, calculations, i + 1)
              IN  [ok |-> rest.ok, code |-> <<c.out>> \o rest.code]

(***************************************************************************)
(* CalculationsBuilder: format.rs 261-332.  A builder is                   *)
(* [ctx (eval_ctx), units (the unit library's cache), calcs]; a call gives *)
(* [r |-> "Ok", idx], [r |-> "Err", err] (an EvaluationError) or           *)
(* [r |-> "Panic"], with b: the builder as the call leaves it.             *)
(***************************************************************************)
BuildOk(idx, b) == [r |-> "Ok", idx |-> idx, err |-> NoError, b |-> b]

BuildErr(err, b) == [r |-> "Err", idx |-> 0, err |-> err, b |-> b]

BuildPanic(b) == [r |-> "Panic", idx |-> 0, err |-> NoError, b |-> b]

\* F(v), with v evaluated once
With(v, F(_)) == CHOOSE res \in {F(x) : x \in {v}} : TRUE

\* the rest of add_single_calculation, after the evaluation ev
single_generate(b, exp, value_mode, ev) ==
    LET units == IF IsNumbersMode(value_mode)
                 THEN cache_if_defined(b.units, ev.u) ELSE b.units
        result == IF IsNumbersMode(value_mode)
                  THEN SomeExpression(FNumber(ev.v, ev.u))
                  ELSE NoExpression
    IN  With(generate_formattable_expression(ev.ctx, units, exp, value_mode, FALSE),
             LAMBDA fexp :
                IF ~fexp.ok
                THEN BuildPanic([ctx |-> ev.ctx, units |-> fexp.units,
                                 calcs |-> b.calcs])
                ELSE BuildOk(Len(b.calcs),
                             [ctx |-> ev.ctx, units |-> fexp.units,
                              calcs |-> Append(b.calcs,
                                               CalculationSingle(fexp.f, result))]))

add_single_calculation(b, exp, value_mode) ==
    With(IF IsNumbersMode(value_mode) THEN eval(exp, b.ctx)
         ELSE EvalOk(NonRational, UnitNone, b.ctx, <<>>),
         LAMBDA ev :
            IF ev.r = "Err" THEN BuildErr(ev.err, [b EXCEPT !.ctx = ev.ctx])
            ELSE IF ev.r = "Panic" THEN BuildPanic([b EXCEPT !.ctx = ev.ctx])
            ELSE single_generate(b, exp, value_mode, ev))

RECURSIVE multi_pairs(_, _, _, _)
\* the iterator of add_multi_calculation from expression i on, collected
\* into a Result: [r, pairs, err, b]
multi_pairs(b, exps, i, val_mode) ==
    IF i > Len(exps) THEN [r |-> "Ok", pairs |-> <<>>, err |-> NoError, b |-> b]
    ELSE
    With(eval(exps[i], b.ctx), LAMBDA ev :
        IF ev.r # "Ok"
        THEN [r |-> ev.r, pairs |-> <<>>, err |-> ev.err,
              b |-> [b EXCEPT !.ctx = ev.ctx]]
        ELSE
        With(generate_formattable_expression(
                 ev.ctx, cache_if_defined(b.units, ev.u), exps[i], val_mode, FALSE),
             LAMBDA fexp :
                IF ~fexp.ok
                THEN [r |-> "Panic", pairs |-> <<>>, err |-> NoError,
                      b |-> [ctx |-> ev.ctx, units |-> fexp.units, calcs |-> b.calcs]]
                ELSE
                With(multi_pairs([ctx |-> ev.ctx, units |-> fexp.units,
                                  calcs |-> b.calcs], exps, i + 1, val_mode),
                     LAMBDA rest :
                        [r |-> rest.r,
                         pairs |-> <<[expr |-> fexp.f, res |-> FNumber(ev.v, ev.u)]>>
                                   \o rest.pairs,
                         err |-> rest.err, b |-> rest.b])))

add_multi_calculation(b, exps, display_units) ==
    With(multi_pairs(b, exps, 1,
                     IF display_units THEN "NumbersWithUnit" ELSE "NumbersNoUnit"),
         LAMBDA fexps :
            IF fexps.r = "Err" THEN BuildErr(fexps.err, fexps.b)
            ELSE IF fexps.r = "Panic" THEN BuildPanic(fexps.b)
            ELSE BuildOk(Len(b.calcs),
                         [fexps.b EXCEPT
                             !.calcs = Append(@, CalculationMulti(fexps.pairs))]))

(***************************************************************************)
(* handle_code_block and exp: markdown.rs 65-132.  A block is              *)
(* [flags, lines]: the characters before the first whitespace, and the     *)
(* text lines after them, each one a TokenTree (what parse::tokenize       *)
(* returns for it), Blank, or TokenizeError (tokenize returns Err).        *)
(***************************************************************************)
Blank == [t |-> "Blank"]

TokenizeError == [t |-> "TokenizeError"]

TokenizationError(e) == [kind |-> "TokenizationError", detail |-> e]

ExpressionError(e) == [kind |-> "ExpressionError", detail |-> e]

\* format_err(..): the inline error marker
Marker(kind, line, err) == [marker |-> kind, line |-> line, err |-> err]

NoMarker == Marker("", -1, NoError)

NoLine == -1

exp(source) ==
    IF source = TokenizeError
    THEN [r |-> "Err", e |-> PanicExpression, err |-> TokenizationError("")]
    ELSE LET res == Expression_new(source) IN
         [r |-> res.r, e |-> res.e, err |-> ExpressionError(res.err)]

RECURSIVE parse_lines(_, _)
\* the loop over lines from line i on: [r, exps, at, err]; at is the
\* 0-based index of the line that stopped it
parse_lines(lines, i) ==
    IF i > Len(lines) THEN [r |-> "Ok", exps |-> <<>>, at |-> NoLine, err |-> NoError]
    ELSE IF lines[i] = Blank THEN parse_lines(lines, i + 1)
    ELSE LET res == exp(lines[i]) IN
         IF res.r # "Ok"
         THEN [r |-> res.r, exps |-> <<>>, at |-> i - 1, err |-> res.err]
         ELSE LET rest == parse_lines(lines, i + 1) IN
              [r |-> rest.r, exps |-> <<res.e>> \o rest.exps, at |-> rest.at,
               err |-> rest.err]

PreFlags == {"u", "v", "i"}

BlockOk(some, idx, b) ==
    [r |-> "Ok", some |-> some, idx |-> idx, marker |-> NoMarker, b |-> b]

BlockErr(marker, b) ==
    [r |-> "Err", some |-> FALSE, idx |-> 0, marker |-> marker, b |-> b]

BlockPanic(b) ==
    [r |-> "Panic", some |-> FALSE, idx |-> 0, marker |-> NoMarker, b |-> b]

\* the calculation of handle_code_block, on the parsed lines
add_calculation(block, cb, exps, val_mode, render_units, visible) ==
    With(IF Len(block.lines) = 1
         THEN add_single_calculation(cb, exps[1], val_mode)
         ELSE add_multi_calculation(cb, exps, render_units),
         LAMBDA res :
            IF res.r = "Panic" THEN BlockPanic(res.b)
            ELSE IF res.r = "Err"
            THEN BlockErr(Marker("Evaluation", NoLine, res.err), res.b)
            ELSE BlockOk(visible, res.idx, res.b))

handle_code_block(block, cb) ==
    LET invalid == {j \in 1..Len(block.flags) : block.flags[j] \notin PreFlags}
        render_units == \A j \in 1..Len(block.flags) : block.flags[j] # "u"
        render_vars == \E j \in 1..Len(block.flags) : block.flags[j] = "v"
        visible == \A j \in 1..Len(block.flags) : block.flags[j] # "i"
        val_mode == IF render_vars
                    THEN IF render_units THEN "NamedLiteralUnit" ELSE "NamedNoUnit"
                    ELSE IF render_units THEN "NumbersWithUnit" ELSE "NumbersNoUnit"
        lines == block.lines
    IN  IF invalid # {}
        THEN BlockErr(Marker("Invalid preflag", NoLine,
                             [kind |-> "Preflag",
                              detail |-> block.flags[CHOOSE j \in invalid :
                                                        \A k \in invalid : j <= k]]),
                      cb)
        ELSE
        With(parse_lines(lines, 1), LAMBDA parsed :
            IF parsed.r = "Panic" THEN BlockPanic(cb)
            ELSE IF parsed.r = "Err"
            THEN BlockErr(IF Len(lines) = 1 THEN Marker("Error", NoLine, parsed.err)
                          ELSE Marker("Error on line", parsed.at, parsed.err), cb)
            ELSE IF Len(lines) = 1 /\ parsed.exps = <<>> THEN BlockPanic(cb) \* exps[0]
            ELSE add_calculation(block, cb, parsed.exps, val_mode, render_units,
                                 visible))

(***************************************************************************)
(* parse_markdown: markdown.rs 8-43, on a document of code blocks          *)
(* separated by text blocks (text block i precedes code block i + 1, and   *)
(* one more text block ends the document), with the non-interactive unit   *)
(* library.  The code blocks are handled one after the other; then the     *)
(* calculations are finished, resolved, formatted and the output is        *)
(* assembled.                                                              *)
(***************************************************************************)
MaxBlocks == 2

Formula(operators, children) == TOperatorSequence(operators, children)

Zero == TNumberLiteral(<<"0">>)

SingleBlock(flags, line) == [flags |-> flags, lines |-> <<line>>]

BlockPool ==
    {SingleBlock(<<>>, Formula(<<"/">>, <<Digit(1), Zero>>)),
     SingleBlock(<<"u">>, Formula(<<"//">>, <<Digit(1), Zero>>)),
     SingleBlock(<<>>, TFunctionCall("sqrt", <<TNegate(Digit(1))>>)),
     SingleBlock(<<>>, TVariableRef("y")),
     SingleBlock(<<>>, TVariableAssign("x", TDefinedUnit("m", Digit(2)))),
     SingleBlock(<<"v">>, Formula(<<"/">>, <<Digit(1), Zero>>)),
     SingleBlock(<<"v">>, TVariableAssign("y", Digit(2))),
     SingleBlock(<<"i">>, TVariableAssign("y", Formula(<<"+">>, <<Digit(1), Digit(1)>>))),
     SingleBlock(<<"x">>, Digit(1)),
     SingleBlock(<<>>, TokenizeError),
     SingleBlock(<<"u">>, TVariableAssign("x", TDefinedUnit("m", Digit(2)))),
     [flags |-> <<"u">>,
      lines |-> <<TVariableAssign("x", TLiteralUnit("kg", Digit(2))),
                  Formula(<<"+">>, <<TVariableRef("x"), Digit(1)>>)>>],
     [flags |-> <<>>,
      lines |-> <<TVariableAssign("y", Digit(3)),
                  Formula(<<"/">>, <<TVariableRef("x"), Zero>>)>>],
     [flags |-> <<>>,
      lines |-> <<TVariableAssign("y", Digit(3)),
                  Formula(<<"+">>, <<TVariableRef("y"), Digit(1)>>)>>],
     [flags |-> <<>>, lines |-> <<Blank, Blank>>],
     SingleBlock(<<>>, Blank),
     [flags |-> <<>>, lines |-> <<TVariableAssign("y", Digit(3)), TokenizeError>>],
     [flags |-> <<>>,
      lines |-> <<TFunctionCall("sqrt", <<>>), TVariableAssign("z", Digit(3))>>]}

Documents == UNION {[1..n -> BlockPool] : n \in 0..MaxBlocks}

OutText(i) == [kind |-> "text", i |-> i, marker |-> NoMarker, out |-> <<>>]

OutMarker(marker) == [kind |-> "marker", i |-> 0, marker |-> marker, out |-> <<>>]

OutCode(out) == [kind |-> "code", i |-> 0, marker |-> NoMarker, out |-> out]

\* what a code block contributes to the output
block_output(res, code) ==
    IF res.r = "Err" THEN OutMarker(res.marker)
    ELSE IF res.some THEN OutCode(code[res.idx + 1])
    ELSE OutCode(<<>>)

assemble(results, code) ==
    [k \in 1..(2 * Len(results) + 1) |->
        IF k % 2 = 1 THEN OutText((k - 1) \div 2)
        ELSE block_output(results[k \div 2], code)]

MarkdownInit ==
    /\ mdoc \in Documents
    /\ mpos = 0
    /\ mctx = EmptyContext
    /\ mcalcs = <<>>
    /\ mresults = <<>>
    /\ mlog = <<>>
    /\ mstage = "blocks"
    /\ mout = <<>>
    /\ mcalls = <<>>

MarkdownIdle ==
    /\ mdoc = <<>>
    /\ mpos = 0
    /\ mctx = EmptyContext
    /\ mcalcs = <<>>
    /\ mresults = <<>>
    /\ mlog = <<>>
    /\ mstage = "idle"
    /\ mout = <<>>
    /\ mcalls = <<>>

UnitGhosts == <<uphase, asked, runs, lastrun, pass_units, ncached, got>>

CallCache(unit) == [call |-> "cache_defined_unit", unit |-> unit]

CallResolve == [call |-> "resolve_units", unit |-> Defined("")]

CallGet(unit) == [call |-> "get_defined_unit", unit |-> unit]

RECURSIVE tree_queries(_)
\* the units that resolve_formattable_expression passes to get_defined_unit
\* for a display tree, in order
tree_queries(f) ==
    CASE f.f = "Number" -> IF f.unit.k = "Defined" THEN <<f.unit.d>> ELSE <<>>
      [] f.f = "Variable" -> <<>>
      [] f.f = "Operator" -> tree_queries(f.left) \o tree_queries(f.right)
      [] f.f = "Function" ->
            IF f.args = <<>> THEN <<>>
            ELSE tree_queries(f.args[1])
                 \o tree_queries([f EXCEPT !.args = Tail(f.args)])
      [] OTHER -> tree_queries(f.child)

RECURSIVE pair_queries(_, _)
pair_queries(pairs, i) ==
    IF i > Len(pairs) THEN <<>>
    ELSE tree_queries(pairs[i].expr) \o tree_queries(pairs[i].res)
         \o pair_queries(pairs, i + 1)

RECURSIVE unit_queries(_, _, _, _)
\* the units that format_calculations passes to get_defined_unit from
\* calculation i on, until it returns or panics
unit_queries(coll, interactive, calculations, i) ==
    IF i > Len(calculations) THEN <<>>
    ELSE LET calc == calculations[i] IN
         (IF calc.c = "Single"
          THEN tree_queries(calc.expr)
               \o (IF calc.result.some THEN tree_queries(calc.result.f) ELSE <<>>)
          ELSE pair_queries(calc.pairs, 1))
         \o (IF format_calculation(coll, interactive, calc).ok
             THEN unit_queries(coll, interactive, calculations, i + 1)
             ELSE <<>>)

\* the calls of get_defined_unit before the call of resolve_units
finish_calls_format_first(calls, queries) ==
    calls \o [k \in 1..Len(queries) |-> CallGet(queries[k])] \o <<CallResolve>>

\* unit_lib.resolve_units(); lib.format_calculations(unit_lib, calc)
finish_calls(calls, queries) ==
    calls \o <<CallResolve>> \o [k \in 1..Len(queries) |-> CallGet(queries[k])]

\* code_blocks.push(handle_code_block(&block, lib, &mut cb))
HandleCodeBlock ==
    /\ mstage = "blocks"
    /\ mpos < Len(mdoc)
    /\ \E res \in {handle_code_block(mdoc[mpos + 1],
                                      [ctx |-> mctx, units |-> cache,
                                       calcs |-> mcalcs])} :
           /\ mctx' = res.b.ctx
           /\ cache' = res.b.units
           /\ mcalcs' = res.b.calcs
           /\ mresults' = Append(mresults, [r |-> res.r, some |-> res.some,
                                            idx |-> res.idx, marker |-> res.marker])
           /\ mstage' = IF res.r = "Panic" THEN "panicked" ELSE "blocks"
           /\ mcalls' = mcalls \o [k \in 1..(Len(res.b.units) - Len(cache)) |->
                                       CallCache(res.b.units[Len(cache) + k])]
    /\ mlog' = Append(mlog, [ctx |-> mctx, ncalcs |-> Len(mcalcs)])
    /\ mpos' = mpos + 1
    /\ UNCHANGED <<mdoc, mout, collection, interact>>
    /\ UNCHANGED <<NotMarkdown, UnitGhosts>>

\* cb.finish(); unit_lib.resolve_units(); lib.format_calculations(..); the
\* output.  resolve_units returns at once: the library is not interactive.
FinishMarkdown ==
    /\ mstage = "blocks"
    /\ mpos = Len(mdoc)
    /\ ~interact
    /\ \E code \in {format_calculations(collection, interact, mcalcs, 1)} :
           IF code.ok
           THEN /\ mstage' = "done"
                /\ mout' = assemble(mresults, code.code)
           ELSE /\ mstage' = "panicked"
                /\ mout' = <<>>
    /\ mcalls' = finish_calls(mcalls, unit_queries(collection, interact, mcalcs, 1))
    /\ UNCHANGED <<mdoc, mpos, mctx, mcalcs, mresults, mlog, collection, cache,
                   interact>>
    /\ UNCHANGED <<NotMarkdown, UnitGhosts>>

NextMarkdown == HandleCodeBlock \/ FinishMarkdown

(***************************************************************************)
(* The persisted unit collection: unit_lib.rs 55-109 (Display, FromStr)    *)
(* and lib.rs 25-42, 71.  Here a String is the sequence of its characters, *)
(* so that lines, trim and split act on the text as written.  A HashMap    *)
(* iterates in an arbitrary order: to_string takes the order of each map   *)
(* as an input.                                                            *)
(***************************************************************************)
RECURSIVE join(_, _)
\* Vec<String>::join(sep)
join(strs, sep) ==
    IF strs = <<>> THEN <<>>
    ELSE IF Len(strs) = 1 THEN strs[1]
    ELSE strs[1] \o sep \o join(Tail(strs), sep)

\* format!("{a};{b}")
defined_line(coll, a) == a \o <<";">> \o coll.defined_units[a]

\* format!("{a};{op};{b};{r}") for the key (op, a, b)
operator_line(coll, key) ==
    key[2] \o <<";">> \o key[1] \o <<";">> \o key[3] \o <<";">>
    \o coll.operator_results[key]

\* d_iter, o_iter: the keys of the two maps in iteration order
to_string(coll, d_iter, o_iter) ==
    join([i \in 1..Len(d_iter) |-> defined_line(coll, d_iter[i])], <<"\n">>)
    \o <<"\n", "\n">>
    \o join([i \in 1..Len(o_iter) |-> operator_line(coll, o_iter[i])], <<"\n">>)

RECURSIVE split(_, _)
\* str::split(sep): one piece more than there are separators
split(s, sep) ==
    IF \A i \in 1..Len(s) : s[i] # sep THEN <<s>>
    ELSE LET i == CHOOSE i \in 1..Len(s) : s[i] = sep /\ \A j \in 1..(i - 1) : s[j] # sep
         IN  <<SubSeq(s, 1, i - 1)>> \o split(SubSeq(s, i + 1, Len(s)), sep)

\* str::lines(): split at the line feeds; a last empty line is not a line
str_lines(s) ==
    LET pieces == split(s, "\n") IN
    IF pieces[Len(pieces)] = <<>> THEN SubSeq(pieces, 1, Len(pieces) - 1) ELSE pieces

RECURSIVE trim_start(_)
trim_start(s) ==
    IF s # <<>> /\ Head(s) = " " THEN trim_start(Tail(s)) ELSE s

RECURSIVE trim_end(_)
trim_end(s) ==
    IF s # <<>> /\ s[Len(s)] = " " THEN trim_end(SubSeq(s, 1, Len(s) - 1)) ELSE s

\* str::trim()
trim(s) == trim_end(trim_start(s))

FromStrOk(coll) == [r |-> "Ok", coll |-> coll]

FromStrErr == [r |-> "Err", coll |-> UnitCollection(EmptyMap, EmptyMap)]

RECURSIVE operator_loop(_, _, _)
\* the second loop of from_str, from line i on
operator_loop(ls, i, coll) ==
    IF i > Len(ls) \/ trim(ls[i]) = <<>> THEN FromStrOk(coll)
    ELSE LET parts == split(trim(ls[i]), ";") IN
         IF Len(parts) # 4 THEN FromStrErr
         ELSE operator_loop(ls, i + 1,
                  add_operator_result(coll, parts[2], parts[1], parts[3], parts[4]))

RECURSIVE defined_loop(_, _, _)
\* the first loop of from_str, from line i on; the empty line that ends it
\* is consumed
defined_loop(ls, i, coll) ==
    IF i > Len(ls) THEN operator_loop(ls, i, coll)
    ELSE IF trim(ls[i]) = <<>> THEN operator_loop(ls, i + 1, coll)
    ELSE LET parts == split(trim(ls[i]), ";") IN
         IF Len(parts) # 2 THEN FromStrErr
         ELSE defined_loop(ls, i + 1, add_defined_unit(coll, parts[1], parts[2]))

from_str(s) == defined_loop(str_lines(s), 1, UnitCollection(EmptyMap, EmptyMap))

(***************************************************************************)
(* Saving and loading: run writes unit_lib.finish().to_string() to         *)
(* units.txt (lib.rs 71), the next run parses the file (lib.rs 25-36).     *)
(* Unit names are identifiers; a label is whatever one line of input       *)
(* trims to.                                                               *)
(***************************************************************************)
StoredNames == {<<"m">>, <<"s">>}

StoredLabels == {<<"u">>, <<>>, <<"k", ";">>, <<"k", " ", "g">>}

StoredKeys == {<<<<"+">>, <<"m">>, <<"s">>>>, <<<<"-">>, <<"m">>, <<"s">>>>,
               <<<<"+">>, <<"s">>, <<"m">>>>}

StoredResults == {<<"m">>, <<"m", "s">>}

StoredCollections ==
    {UnitCollection(d, o) :
        d \in UNION {[names -> StoredLabels] : names \in SUBSET StoredNames},
        o \in UNION {[keys -> StoredResults] : keys \in SUBSET StoredKeys}}

\* the sequences that list every element of S once
Orders(S) ==
    {order \in [1..Cardinality(S) -> S] : \A x \in S : \E i \in DOMAIN order : order[i] = x}

NoText == <<"?">>

PersistInit ==
    /\ pcoll \in StoredCollections
    /\ ptext = NoText
    /\ ploaded = FromStrErr
    /\ pstage = "memory"

PersistIdle ==
    /\ pcoll = UnitCollection(EmptyMap, EmptyMap)
    /\ ptext = NoText
    /\ ploaded = FromStrErr
    /\ pstage = "idle"

\* fs::write(UNIT_PATH, unit_lib.finish().to_string())
Save ==
    /\ pstage = "memory"
    /\ \E d_iter \in Orders(DOMAIN pcoll.defined_units) :
       \E o_iter \in Orders(DOMAIN pcoll.operator_results) :
           ptext' = to_string(pcoll, d_iter, o_iter)
    /\ pstage' = "saved"
    /\ UNCHANGED <<pcoll, ploaded>>
    /\ UNCHANGED NotPersist

\* fs::read_to_string(UNIT_PATH), s.parse()
Load ==
    /\ pstage = "saved"
    /\ ploaded' = from_str(ptext)
    /\ pstage' = "loaded"
    /\ UNCHANGED <<pcoll, ptext>>
    /\ UNCHANGED NotPersist

NextPersist == Save \/ Load

(***************************************************************************)
(* fmt_expression on its own: library_provider.rs 266-298, called with a   *)
(* template and the operands of a node.  The templates are those of the    *)
(* formatter and every string of at most MaxFmtLen characters over         *)
(* FmtAlphabet.                                                            *)
(***************************************************************************)
MaxFmtLen == 4

FmtAlphabet == {"$", "0", "1", "("}

NoUnitLabel == [some |-> FALSE, s |-> <<>>]

One == FNumber(Int2F(1), NoUnitLabel)

TwoMetres == FNumber(Int2F(2), [some |-> TRUE, s |-> <<"m">>])

FmtOperands == {One, TwoMetres, FOperator("+", One, TwoMetres)}

FmtTemplates ==
    {OperatorFmt(symbol) : symbol \in RegisteredOperators}
    \cup {FunctionFmt(name) : name \in DOMAIN FunctionArity}
    \cup {ParenthesiseFmt, NegateFmt, SingleResultFmt, SingleFmt, MultiLineFmt}
    \cup UNION {[1..n -> FmtAlphabet] : n \in 0..MaxFmtLen}

TemplateInit ==
    /\ tfmt \in FmtTemplates
    /\ targs \in [1..2 -> FmtOperands]
    /\ tout = WritePanic
    /\ tstage = "template"

TemplateIdle ==
    /\ tfmt = <<>>
    /\ targs = <<>>
    /\ tout = WritePanic
    /\ tstage = "idle"

\* self.fmt_expression(fmt, args, out), out empty before the call
FmtExpression ==
    /\ tstage = "template"
    /\ tout' = fmt_expression(tfmt, targs)
    /\ tstage' = "done"
    /\ UNCHANGED <<tfmt, targs>>
    /\ UNCHANGED NotTemplate

NextTemplate == FmtExpression

(***************************************************************************)
(* The tree builder: parse.rs 93-292 (tokenize, gen_tree, handle_expr) on  *)
(* the source tokens of a line.  Indices are those of the code (from 0);   *)
(* a result is [r |-> "Ok", tree, i], [r |-> "Err", err] or                *)
(* [r |-> "Panic"].  `i -= 1` on i = 0 panics with overflow checks and     *)
(* wraps without them; checks tells which.                                 *)
(***************************************************************************)
SNumber(text) == [s |-> "Number", v |-> text]

SOperator(op) == [s |-> "Operator", v |-> op]

SName(name) == [s |-> "Name", v |-> name]

SString(str) == [s |-> "String", v |-> str]

SParentheses(closing) == [s |-> "Parentheses", v |-> closing]

TreeOk(tree, i) == [r |-> "Ok", tree |-> tree, i |-> i, err |-> ""]

TreeErr(err) == [r |-> "Err", tree |-> TNumberLiteral(<<>>), i |-> 0, err |-> err]

TreePanic == [r |-> "Panic", tree |-> TNumberLiteral(<<>>), i |-> 0, err |-> ""]

\* expr.get(i)
Get(tokens_, i) == IF i < Len(tokens_) THEN tokens_[i + 1] ELSE [s |-> "None", v |-> ""]

is_end(tokens_, i) ==
    \/ i >= Len(tokens_)
    \/ tokens_[i + 1] = SParentheses(TRUE)
    \/ tokens_[i + 1] = SOperator(",")

\* usize::MAX, what 0 - 1 wraps to
WrappedIndex == -1

RECURSIVE gen_loop(_, _, _, _, _, _, _)
RECURSIVE handle_expr(_, _, _)
RECURSIVE call_args(_, _, _, _)

\* gen_tree after its loop: i -= 1 and the checks of the result
gen_result(i, trees, operators, checks) ==
    IF i = 0 /\ checks THEN TreePanic
    ELSE LET last == IF i = 0 THEN WrappedIndex ELSE i - 1 IN
         IF trees = <<>> THEN TreeErr("Expected expression")
         ELSE IF Len(operators) # Len(trees) - 1
         THEN TreeErr("Expected expression after operator")
         ELSE IF operators = <<>> THEN TreeOk(trees[1], last)
         ELSE TreeOk(TOperatorSequence(operators, trees), last)

\* the loop of gen_tree from index i on
gen_loop(tokens_, i, trees, operators, expect_expr, neg, checks) ==
    IF is_end(tokens_, i) THEN gen_result(i, trees, operators, checks)
    ELSE IF expect_expr
    THEN IF tokens_[i + 1] = SOperator("-")
         THEN IF neg THEN TreeErr("Double negation is not allowed")
              ELSE gen_loop(tokens_, i + 1, trees, operators, TRUE, TRUE, checks)
         ELSE With(handle_expr(tokens_, i, checks), LAMBDA res :
                  IF res.r # "Ok" THEN res
                  ELSE gen_loop(tokens_, res.i + 1,
                                Append(trees, IF neg THEN TNegate(res.tree)
                                              ELSE res.tree),
                                operators, FALSE, FALSE, checks))
    ELSE LET token == tokens_[i + 1]
             t == trees[Len(trees)]
             popped == SubSeq(trees, 1, Len(trees) - 1)
         IN  CASE token.s = "Operator" ->
                    gen_loop(tokens_, i + 1, trees, Append(operators, token.v), TRUE,
                             neg, checks)
               [] token.s = "Name" ->
                    gen_loop(tokens_, i + 1, Append(popped, TDefinedUnit(token.v, t)),
                             operators, FALSE, neg, checks)
               [] token.s = "String" ->
                    gen_loop(tokens_, i + 1, Append(popped, TLiteralUnit(token.v, t)),
                             operators, FALSE, neg, checks)
               [] token.s = "Number" ->
                    TreeErr("Expected unit or operator, got number")
               [] token.s = "Parentheses" ->
                    TreeErr("Expected unit or operator, got (")

gen_tree(tokens_, start, checks) ==
    gen_loop(tokens_, start, <<>>, <<>>, TRUE, FALSE, checks)

\* the loop of the FuncCall branch, with *i = i: [r, args, i, err]
call_args(tokens_, i, args, checks) ==
    With(gen_tree(tokens_, i, checks), LAMBDA arg :
        IF arg.r # "Ok" THEN [r |-> arg.r, args |-> <<>>, i |-> 0, err |-> arg.err]
        ELSE IF Get(tokens_, arg.i + 1) # SOperator(",")
        THEN [r |-> "Ok", args |-> Append(args, arg.tree), i |-> arg.i + 1, err |-> ""]
        ELSE call_args(tokens_, arg.i + 2, Append(args, arg.tree), checks))

\* handle_expr with *i = i; the i of the result is *i as the call leaves it
handle_expr(tokens_, i, checks) ==
    LET token == tokens_[i + 1] IN
    CASE token.s = "Number" -> TreeOk(TNumberLiteral(token.v), i)
      [] token.s = "Operator" ->
            IF token.v = "!"
            THEN IF Get(tokens_, i + 1).s = "Name"
                 THEN TreeOk(TVariableRef(Get(tokens_, i + 1).v), i + 1)
                 ELSE TreeErr("expected variable name after '!'")
            ELSE TreeErr("Expected expression, got operator")
      [] token.s = "Name" ->
            IF Get(tokens_, i + 1) = SOperator("=")
            THEN With(gen_tree(tokens_, i + 2, checks), LAMBDA child :
                     IF child.r # "Ok" THEN child
                     ELSE TreeOk(TVariableAssign(token.v, child.tree), child.i))
            ELSE IF Get(tokens_, i + 1) = SParentheses(FALSE)
            THEN With(call_args(tokens_, i + 2, <<>>, checks), LAMBDA call :
                     IF call.r = "Err" THEN TreeErr(call.err)
                     ELSE IF call.r = "Panic" THEN TreePanic
                     ELSE IF Get(tokens_, call.i) # SParentheses(TRUE)
                     THEN TreeErr("Expected ) after function call")
                     ELSE TreeOk(TFunctionCall(token.v, call.args), call.i))
            ELSE TreeOk(TVariableRef(token.v), i)
      [] token.s = "String" -> TreeErr("Expected token, got string")
      [] token.s = "Parentheses" ->
            \* a closing one is caught by is_end: assert!(!v)
            With(gen_tree(tokens_, i + 1, checks), LAMBDA inner :
                IF inner.r # "Ok" THEN inner
                ELSE IF Get(tokens_, inner.i + 1) # SParentheses(TRUE)
                THEN TreeErr("Expected ) after (")
                ELSE TreeOk(inner.tree, inner.i + 1))

\* tokenize, after tokenize_source
tokenize(source_tokens, checks) ==
    With(gen_tree(source_tokens, 0, checks), LAMBDA res :
        IF res.r # "Ok" THEN res
        ELSE IF res.i = Len(source_tokens) - 1 THEN res
        ELSE TreeErr("unexpected ) or ,"))

(***************************************************************************)
(* One call of tokenize, on every line of at most MaxTokens source tokens  *)
(* over TokenAlphabet.                                                     *)
(***************************************************************************)
MaxTokens == 4

TokenAlphabet ==
    {SNumber(<<"1">>), SOperator("+"), SOperator("-"), SOperator(","),
     SOperator("="), SOperator("!"), SName("pi"), SName("x"), SString("kg"),
     SParentheses(FALSE), SParentheses(TRUE)}

ParseInit ==
    /\ gtokens \in UNION {[1..n -> TokenAlphabet] : n \in 0..MaxTokens}
    /\ gchecks \in BOOLEAN
    /\ gres = TreePanic
    /\ gstage = "tokens"

ParseIdle ==
    /\ gtokens = <<>>
    /\ gchecks = FALSE
    /\ gres = TreePanic
    /\ gstage = "idle"

\* let (tree, i) = gen_tree(&source_tokens, 0)?; ...
Tokenize ==
    /\ gstage = "tokens"
    /\ gres' = tokenize(gtokens, gchecks)
    /\ gstage' = "done"
    /\ UNCHANGED <<gtokens, gchecks>>
    /\ UNCHANGED NotParse

NextParse == Tokenize

(***************************************************************************)
(* One call of add_single_calculation on a builder: format.rs 268-297.     *)
(* The formula is what Expression::new gives for a token tree the parser   *)
(* can build: flat runs, runs grouped by source parentheses, runs under a  *)
(* negation or a unit suffix, unit suffixes and assignments.               *)
(***************************************************************************)
ValueModes == {"NumbersWithUnit", "NumbersNoUnit", "NamedLiteralUnit", "NamedNoUnit"}

TRun(operator, left, right) == TOperatorSequence(<<operator>>, <<left, right>>)

FlatTrees ==
    {TOperatorSequence(<<p, q>>, <<Digit(3), Digit(2), Digit(1)>>) :
        p \in RegisteredOperators, q \in RegisteredOperators}

\* a op (b op c) and (a op b) op c
GroupedTrees ==
    {TRun(p, Digit(3), TRun(q, Digit(2), Digit(1))) :
        p \in RegisteredOperators, q \in RegisteredOperators}
    \cup {TRun(p, TRun(q, Digit(3), Digit(2)), Digit(1)) :
            p \in RegisteredOperators, q \in RegisteredOperators}

\* -(a op b), (a op b) m and (a op b) "kg"
Hidden(run) == {TNegate(run), TDefinedUnit("m", run), TLiteralUnit("kg", run)}

HiddenTrees ==
    UNION {{TRun(p, h, Digit(1)) : h \in Hidden(TRun(q, Digit(3), Digit(2)))}
           \cup {TRun(p, Digit(3), h) : h \in Hidden(TRun(q, Digit(2), Digit(1)))} :
           p \in {"-", "*", "**"}, q \in {"+", "-", "/"}}

SuffixChildren ==
    {Digit(2), TVariableRef("x"), TNegate(Digit(2)), TNegate(TVariableRef("x")),
     TFunctionCall("sqrt", <<Digit(4)>>), TRun("+", TVariableRef("x"), Digit(1)),
     TDefinedUnit("s", Digit(2)), TLiteralUnit("g", TVariableRef("x"))}

SuffixTrees ==
    {TDefinedUnit("m", c) : c \in SuffixChildren}
    \cup {TLiteralUnit("kg", c) : c \in SuffixChildren}
    \cup {TDefinedUnit("None", c) : c \in SuffixChildren}

AssignTrees ==
    {TVariableAssign("x", TRun("+", TVariableRef("x"), Digit(1))),
     TVariableAssign("x", TRun("*", TVariableRef("x"), TVariableRef("x"))),
     TVariableAssign("x", TDefinedUnit("s", TVariableRef("x"))),
     TVariableAssign("x", Digit(2)),
     TVariableAssign("y", TRun("+", TVariableRef("x"), Digit(1))),
     TRun("+", TVariableAssign("x", Digit(2)), TVariableRef("x")),
     TRun("+", TVariableRef("x"), Digit(1)),
     TVariableRef("x")}

BuilderTrees == FlatTrees \cup GroupedTrees \cup HiddenTrees \cup SuffixTrees \cup AssignTrees

BuilderContexts ==
    {EmptyContext,
     [n \in {"x"} |-> [v |-> Int2F(5), u |-> UnitNone]],
     [n \in {"x"} |-> [v |-> Int2F(5), u |-> UnitDefined(Defined("m"))]],
     [n \in {"x"} |-> [v |-> Int2F(5), u |-> UnitLiteral("kg")]]}

Builder(ctx) == [ctx |-> ctx, units |-> <<>>, calcs |-> <<>>]

BuilderInit ==
    /\ btree \in BuilderTrees
    /\ bexp = Expression_new(btree).e
    /\ bmode \in ValueModes
    /\ bbefore \in {Builder(ctx) : ctx \in BuilderContexts}
    /\ bres = NoResult
    /\ bstage = "formula"

BuilderIdle ==
    /\ btree = NoNode
    /\ bexp = NoNode
    /\ bmode = "NumbersWithUnit"
    /\ bbefore = Builder(EmptyContext)
    /\ bres = NoResult
    /\ bstage = "idle"

\* cb.add_single_calculation(&exp, value_mode)
AddSingleCalculation ==
    /\ bstage = "formula"
    /\ bres' = add_single_calculation(bbefore, bexp, bmode)
    /\ bstage' = "added"
    /\ UNCHANGED <<btree, bexp, bmode, bbefore>>
    /\ UNCHANGED NotBuilder

NextBuilder == AddSingleCalculation

InitCompile ==
    /\ CompileInit
    /\ EvalIdle
    /\ UnitIdle
    /\ MarkdownIdle
    /\ PersistIdle
    /\ TemplateIdle
    /\ ParseIdle
    /\ BuilderIdle

InitEval ==
    /\ CompileIdle
    /\ EvalInit
    /\ UnitIdle
    /\ MarkdownIdle
    /\ PersistIdle
    /\ TemplateIdle
    /\ ParseIdle
    /\ BuilderIdle

InitUnit ==
    /\ CompileIdle
    /\ EvalIdle
    /\ UnitInit
    /\ MarkdownIdle
    /\ PersistIdle
    /\ TemplateIdle
    /\ ParseIdle
    /\ BuilderIdle

InitMarkdown ==
    /\ CompileIdle
    /\ EvalIdle
    /\ UnitIdle
    /\ MarkdownInit
    /\ PersistIdle
    /\ TemplateIdle
    /\ ParseIdle
    /\ BuilderIdle

InitPersist ==
    /\ CompileIdle
    /\ EvalIdle
    /\ UnitIdle
    /\ MarkdownIdle
    /\ PersistInit
    /\ TemplateIdle
    /\ ParseIdle
    /\ BuilderIdle

InitTemplate ==
    /\ CompileIdle
    /\ EvalIdle
    /\ UnitIdle
    /\ MarkdownIdle
    /\ PersistIdle
    /\ TemplateInit
    /\ ParseIdle
    /\ BuilderIdle

InitParse ==
    /\ CompileIdle
    /\ EvalIdle
    /\ UnitIdle
    /\ MarkdownIdle
    /\ PersistIdle
    /\ TemplateIdle
    /\ ParseInit
    /\ BuilderIdle

InitBuilder ==
    /\ CompileIdle
    /\ EvalIdle
    /\ UnitIdle
    /\ MarkdownIdle
    /\ PersistIdle
    /\ TemplateIdle
    /\ ParseIdle
    /\ BuilderInit

SpecCompile == InitCompile /\ [][NextCompile]_vars

SpecEval == InitEval /\ [][NextEval]_vars

SpecUnit == InitUnit /\ [][NextUnit]_vars

SpecMarkdown == InitMarkdown /\ [][NextMarkdown]_vars

SpecPersist == InitPersist /\ [][NextPersist]_vars

SpecTemplate == InitTemplate /\ [][NextTemplate]_vars

SpecParse == InitParse /\ [][NextParse]_vars

SpecBuilder == InitBuilder /\ [][NextBuilder]_vars

(***************************************************************************)
(* Claims about precedence resolution                                      *)
(***************************************************************************)
RunRegistered == \A i \in 1..Len(tokens.operators) : operator_exists(tokens.operators[i])

RunLevels == {operator_precedence(tokens.operators[i]) : i \in 1..Len(tokens.operators)}

\* the operands of the run, compiled
RunOperands == Expression_new_all(tokens.children, 1).es

RECURSIVE NoLowerOperatorChild(_)
\* no Op node of the TransformNode has a direct Op child of strictly lower
\* precedence (Expr nodes are operands, not operators of the run)
NoLowerOperatorChild(n) ==
    \/ n.t # "Op"
    \/ /\ n.left.t = "Op" =>
            operator_precedence(n.left.op) >= operator_precedence(n.op)
       /\ n.right.t = "Op" =>
            operator_precedence(n.right.op) >= operator_precedence(n.op)
       /\ NoLowerOperatorChild(n.left)
       /\ NoLowerOperatorChild(n.right)

\* C1: in the compiled tree of every flat run of registered operators, no
\* Operator node built from the run has a direct Operator child, built from
\* the same run, of strictly lower precedence; in particular for the run
\* `a + b * c ** d`.
C1_NoLowerPrecedenceChild ==
    (cstage # "tokens" /\ RunRegistered) => NoLowerOperatorChild(tnode)

RECURSIVE ReferenceTree(_, _, _, _)
\* The tree of a precedence parser on operands lo..hi: the root is the
\* rightmost operator of least precedence (equal precedence groups to the
\* left), its operands are the trees of the two sides.
ReferenceTree(operators, operands, lo, hi) ==
    IF lo = hi THEN operands[lo]
    ELSE LET least == CHOOSE m \in {operator_precedence(operators[i]) : i \in lo..(hi - 1)} :
                        \A i \in lo..(hi - 1) : m <= operator_precedence(operators[i])
             k == CHOOSE k \in lo..(hi - 1) :
                    /\ operator_precedence(operators[k]) = least
                    /\ \A j \in (k + 1)..(hi - 1) :
                          operator_precedence(operators[j]) > least
         IN  Operator(operators[k],
                      ReferenceTree(operators, operands, lo, k),
                      ReferenceTree(operators, operands, k + 1, hi))

\* C2: a run whose registered operators use at most two precedence levels
\* compiles to the tree of the reference precedence parser; operands
\* [2,3,4] with operators [+,*] compile to Operator(+, 2, Operator(*, 3, 4)),
\* which evaluates to 14.
C2_TwoLevelsMatchReference ==
    /\ (cstage # "tokens" /\ RunRegistered /\ Cardinality(RunLevels) <= 2) =>
          /\ expr.r = "Ok"
          /\ expr.e = ReferenceTree(tokens.operators, RunOperands, 1,
                                    Len(tokens.operators) + 1)
    /\ (cstage # "tokens" /\ tokens = RunTokens(1, <<"+", "*">>)) =>
          expr.e = Operator("+", NumberLiteral(Int2F(2)),
                            Operator("*", NumberLiteral(Int2F(3)),
                                     NumberLiteral(Int2F(4))))
    /\ (cstage = "evaluated" /\ tokens = RunTokens(1, <<"+", "*">>)) =>
          evald.r = "Ok" /\ evald.v = Int2F(14)

C2_Witness ==
    /\ cstage = "evaluated"
    /\ tokens = RunTokens(1, <<"+", "*">>)
    /\ evald.r = "Ok"

RECURSIVE LeftDeep(_, _, _)
\* (...(e0 op0 e1) op1 e2 ...) op(k-1) ek
LeftDeep(operators, operands, k) ==
    IF k = 0 THEN operands[1]
    ELSE Operator(operators[k], LeftDeep(operators, operands, k - 1),
                  operands[k + 1])

\* C3: a run whose operators all have the same precedence compiles to the
\* left-deep chain, whatever the operators' associativity flags; `10 - 3 - 2`
\* compiles to Operator(-, Operator(-, 10, 3), 2) and evaluates to 5.
C3_EqualPrecedenceLeftToRight ==
    /\ (cstage # "tokens" /\ RunRegistered /\ Cardinality(RunLevels) = 1) =>
          /\ expr.r = "Ok"
          /\ expr.e = LeftDeep(tokens.operators, RunOperands, Len(tokens.operators))
    /\ (cstage # "tokens" /\ tokens = RunTokens(2, <<"-", "-">>)) =>
          expr.e = Operator("-", Operator("-", NumberLiteral(Int2F(10)),
                                          NumberLiteral(Int2F(3))),
                            NumberLiteral(Int2F(2)))
    /\ (cstage = "evaluated" /\ tokens = RunTokens(2, <<"-", "-">>)) =>
          evald.r = "Ok" /\ evald.v = Int2F(5)

C3_Witness ==
    /\ cstage = "evaluated"
    /\ tokens = RunTokens(2, <<"-", "-">>)
    /\ evald.r = "Ok"

(***************************************************************************)
(* Claims about the evaluator                                              *)
(***************************************************************************)
\* the table of the unit algebra, by (left kind, right kind)
TableUnit(operator, L, R) ==
    CASE L.k = "Defined" /\ R.k = "Defined" ->
            UnitDefined([k |-> "Implicit", operator |-> operator,
                         associative |-> operator_associative(operator),
                         left |-> L.d, right |-> R.d])
      [] L.k = "Defined" /\ R.k = "Literal" -> L
      [] L.k = "Defined" /\ R.k = "None" -> L
      [] L.k = "Literal" /\ R.k = "Defined" -> R
      [] L.k = "Literal" /\ R.k = "Literal" -> UnitNone
      [] L.k = "Literal" /\ R.k = "None" -> L
      [] L.k = "None" -> R

\* C4: evaluating an Operator node combines the operand units by the 3x3
\* table, for all nine (left kind, right kind) pairs; `5 m + 3 "kg"` has
\* unit Defined(m).
C4_UnitCombinationTable ==
    /\ (elast.e.t = "Operator" /\ elast.res.r = "Ok") =>
          LET l == eval(elast.e.left, elast.pre)
              r == eval(elast.e.right, l.ctx)
          IN  elast.res.u = TableUnit(elast.e.operator, l.u, r.u)
    /\ elast.e = Operator("+", m5, kg3) =>
          elast.res.r = "Ok" /\ elast.res.u = UnitDefined(Defined("m"))

C4_Witness ==
    /\ elast.e = Operator("+", m5, kg3)
    /\ elast.res.r = "Ok"
    /\ elast.res.u = UnitDefined(Defined("m"))

\* the entries of log for name
Stores(log, name) == {i \in 1..Len(log) : log[i][1] = name}

LastStore(log, name) ==
    log[CHOOSE i \in Stores(log, name) : \A j \in Stores(log, name) : j <= i]

VariableNames == {"x", "y", "z"}

\* C5: within one context, VariableRef(name) evaluates successfully iff an
\* earlier VariableAssign to name was evaluated successfully, and then
\* returns the pair stored by the most recent one (an assignment overwrites
\* the pair and returns the child's pair); otherwise it fails with
\* MissingVariable{name}.
C5_VariableContext ==
    /\ \A name \in VariableNames :
          LET ref == eval(VariableRef(name), ectx) IN
          IF Stores(elog, name) = {}
          THEN ref.r = "Err" /\ ref.err = MissingVariable(name)
          ELSE /\ ref.r = "Ok"
               /\ ref.v = LastStore(elog, name)[2]
               /\ ref.u = LastStore(elog, name)[3]
    /\ elast.e.t = "VariableRef" =>
          IF Stores(elast.prelog, elast.e.name) = {}
          THEN elast.res.r = "Err" /\ elast.res.err = MissingVariable(elast.e.name)
          ELSE /\ elast.res.r = "Ok"
               /\ elast.res.v = LastStore(elast.prelog, elast.e.name)[2]
               /\ elast.res.u = LastStore(elast.prelog, elast.e.name)[3]
    /\ (elast.e.t = "VariableAssign" /\ elast.res.r = "Ok") =>
          LET c == eval(elast.e.child, elast.pre) IN
          /\ c.r = "Ok" /\ elast.res.v = c.v /\ elast.res.u = c.u
          /\ ectx[elast.e.name] = [v |-> c.v, u |-> c.u]
    /\ (elast.e.t = "VariableAssign" /\ elast.res.r # "Ok") =>
          Stores(elog, elast.e.name) = Stores(elast.prelog, elast.e.name)

\* x was assigned twice, then read
C5_Witness ==
    /\ elast.e = VariableRef("x")
    /\ elast.res.r = "Ok"
    /\ Cardinality(Stores(elog, "x")) >= 2
    /\ elog[1][3] # LastStore(elog, "x")[3]

(***************************************************************************)
(* Claims about the unit library                                           *)
(***************************************************************************)
LookupNames == UnitNames \cup AnswerNames

LookupOperators == {"+", "-"}

\* the result stored under exactly this key
Stored(coll, key) ==
    IF key \in DOMAIN coll.operator_results
    THEN SomeStr(coll.operator_results[key]) ELSE NoneStr

SwappedMS == Imp("+", Defined("s"), Defined("m"))

\* C8: get_operator_result(op, a, b, TRUE) is the stored result of (op, a, b)
\* if present, else that of (op, b, a) if present, else None;
\* get_operator_result(op, a, b, FALSE) is only the result of (op, a, b).
\* With (+, m, s) -> ms stored, resolving Implicit{+, associative, s, m}
\* yields ms and asks the backend nothing.
C8_SwappedLookupIffAssociative ==
    /\ \A operator \in LookupOperators, a \in LookupNames, b \in LookupNames :
          /\ get_operator_result(collection, operator, a, b, TRUE) =
                IF Stored(collection, <<operator, a, b>>).some
                THEN Stored(collection, <<operator, a, b>>)
                ELSE Stored(collection, <<operator, b, a>>)
          /\ get_operator_result(collection, operator, a, b, FALSE) =
                Stored(collection, <<operator, a, b>>)
    /\ Stored(collection, KeyMS) = SomeStr("ms") =>
          LET st == [coll |-> collection, missing |-> {}, answers |-> <<"m">>,
                     asked |-> asked, run |-> runs + 1]
              res == resolve_unit(st, SwappedMS)
          IN  /\ res.name = "ms"
              /\ res.st.asked = asked
              /\ res.st.answers = <<"m">>
              /\ res.st.coll.operator_results = collection.operator_results

\* resolve_units has walked Implicit{+, associative, s, m} on a collection
\* that holds only (+, m, s) -> ms, and nothing was asked
C8_Witness ==
    /\ interact
    /\ uphase = "resolved"
    /\ lastrun.cache = <<SwappedMS>>
    /\ "ms" \in lastrun.labelled
    /\ DOMAIN collection.operator_results = {KeyMS}
    /\ collection.operator_results[KeyMS] = "ms"
    /\ asked = <<>>

\* C9: in interactive mode, once resolve_units() has returned,
\* get_defined_unit(u) returns a display label, without failing, for every
\* unit u passed to cache_defined_unit earlier in the pass, for any initial
\* collection the collection parser accepts.
C9_ResolvedUnitsHaveLabels ==
    (interact /\ uphase = "rendered") =>
        \A unit \in pass_units : got[unit].r = "Ok"

RECURSIVE SubUnits(_)
SubUnits(unit) ==
    IF unit.k = "Defined" THEN {unit}
    ELSE {unit} \cup SubUnits(unit.left) \cup SubUnits(unit.right)

ResultEvents == {i \in 1..Len(asked) : asked[i].kind = "result"}

NameEvents == {i \in 1..Len(asked) : asked[i].kind = "name"}

SwappedKey(key) == <<key[1], key[3], key[2]>>

\* no combination is asked for twice, every answer is stored under the key
\* it was asked for, and the swapped combination of an associative operator
\* is not asked for afterwards
OperatorResultsMemoized ==
    /\ \A i \in ResultEvents, j \in ResultEvents :
          i < j => /\ asked[j].key # asked[i].key
                   /\ operator_associative(asked[i].key[1]) =>
                         asked[j].key # SwappedKey(asked[i].key)
    /\ \A i \in ResultEvents :
          Stored(collection, asked[i].key) = SomeStr(asked[i].s)

\* within a run the names are asked for after the results, each one once,
\* and only names that had no label
NamesAskedOnceAfterWalk ==
    /\ \A i \in NameEvents, j \in ResultEvents :
          asked[i].run = asked[j].run => j < i
    /\ \A i \in NameEvents, j \in NameEvents :
          (asked[i].run = asked[j].run /\ asked[i].s = asked[j].s) => i = j
    /\ (uphase = "resolved" /\ interact) =>
          \A i \in NameEvents :
              asked[i].run = runs => asked[i].s \notin lastrun.labelled

\* the names the units of the last run resolve to
WalkedNames ==
    {get_internal_unit(collection, sub).name :
        sub \in UNION {SubUnits(lastrun.cache[i]) : i \in 1..Len(lastrun.cache)}}

\* every name the last run met that had no label was asked for in that run
UnlabelledNamesAsked ==
    (uphase = "resolved" /\ interact) =>
        \A name \in WalkedNames \ lastrun.labelled :
            \E i \in NameEvents : asked[i].run = runs /\ asked[i].s = name

\* C10: over any sequence of interactive resolve_units() runs on one
\* collection, the result of a combination (op, leftName, rightName) is
\* asked for at most once, the answer is stored under the original key, the
\* swapped combination of an associative operator is never asked for
\* afterwards, and each name lacking a display label is asked for exactly
\* once per run, after all cached units have been walked.
C10_ResultsMemoizedNamesAskedOnce ==
    /\ OperatorResultsMemoized
    /\ NamesAskedOnceAfterWalk
    /\ UnlabelledNamesAsked

(***************************************************************************)
(* Claims about errors in a pass                                           *)
(***************************************************************************)
RECURSIVE FirstFailure(_, _, _)
\* the first result that is not Ok when exps are evaluated in order from
\* expression i on, or Ok
FirstFailure(exps, i, ctx) ==
    IF i > Len(exps) THEN [r |-> "Ok", err |-> NoError]
    ELSE LET ev == eval(exps[i], ctx) IN
         IF ev.r # "Ok" THEN [r |-> ev.r, err |-> ev.err]
         ELSE FirstFailure(exps, i + 1, ev.ctx)

\* the lines of block compile and are evaluated, and the evaluation fails
EvaluationFails(block, ctx) ==
    /\ \A j \in 1..Len(block.flags) : block.flags[j] \in PreFlags
    /\ Len(block.lines) > 1 \/ \A j \in 1..Len(block.flags) : block.flags[j] # "v"
    /\ LET parsed == parse_lines(block.lines, 1) IN
       /\ parsed.r = "Ok"
       /\ parsed.exps # <<>>
       /\ FirstFailure(parsed.exps, 1, ctx).r = "Err"

FailedBlocks == {i \in 1..mpos : EvaluationFails(mdoc[i], mlog[i].ctx)}

\* a block whose evaluation fails gives the marker of the failure and adds
\* no calculation
EvaluationFailureIsMarker ==
    \A i \in FailedBlocks :
        /\ mresults[i].r = "Err"
        /\ mresults[i].marker =
              Marker("Evaluation", NoLine,
                     FirstFailure(parse_lines(mdoc[i].lines, 1).exps, 1,
                                  mlog[i].ctx).err)
        /\ mlog[i].ncalcs = IF i < mpos THEN mlog[i + 1].ncalcs ELSE Len(mcalcs)

\* the pass returns every text block, the marker of every failed block and
\* the output of every other block
PassEmitsEveryBlock ==
    /\ mstage = "done"
    /\ Len(mout) = 2 * Len(mdoc) + 1
    /\ \A k \in 0..Len(mdoc) : mout[2 * k + 1] = OutText(k)
    /\ \A i \in 1..Len(mdoc) :
          IF mresults[i].r = "Err" THEN mout[2 * i] = OutMarker(mresults[i].marker)
          ELSE mout[2 * i].kind = "code"

\* C6: when the evaluation of a formula fails (division by zero, a domain
\* error, a missing variable), add_single_calculation / add_multi_calculation
\* return Err, handle_code_block puts an inline error marker in the place of
\* that block's output, and the pass does not crash: parse_markdown still
\* emits every text block and the output of every other code block.
C6_EvaluationFailureIsInlineError ==
    /\ EvaluationFailureIsMarker
    /\ (FailedBlocks # {} /\ mstage \in {"done", "panicked"}) => PassEmitsEveryBlock

\* C7: a formula that uses an operator symbol that is not registered in the
\* math library is rejected with the ExpressionError InvalidOperator when
\* the Expression is compiled; nothing panics in operator_precedence or in
\* eval_operator.
C7_UnregisteredOperatorRejected ==
    (cstage # "tokens" /\ ~RunRegistered) =>
        /\ expr = NewErr("InvalidOperator")
        /\ evald = NoResult

(***************************************************************************)
(* Claims about the saved unit collection                                  *)
(***************************************************************************)
\* the text cannot be split wrongly: a label holds no field separator
PlainLabels(coll) ==
    \A name \in DOMAIN coll.defined_units :
        \A i \in 1..Len(coll.defined_units[name]) : coll.defined_units[name][i] # ";"

\* what round-trips: a collection with a defined unit and plain labels
RoundTripWithDefinedUnits ==
    (pstage = "loaded" /\ pcoll.defined_units # EmptyMap /\ PlainLabels(pcoll))
        => ploaded = FromStrOk(pcoll)

\* C11: parsing the text that to_string produced succeeds and gives a
\* collection with the same defined-unit entries and the same
\* operator-result entries, for every collection, one with an empty
\* defined-unit map and a non-empty operator-result map included.
C11_RoundTrip ==
    pstage = "loaded" => ploaded = FromStrOk(pcoll)

(***************************************************************************)
(* Claims about template expansion                                         *)
(***************************************************************************)
\* the characters k.. of fmt that are digits, up to the first other one
RECURSIVE DigitRun(_, _)
DigitRun(fmt, k) ==
    IF k <= Len(fmt) /\ is_numeric(fmt[k]) THEN <<fmt[k]>> \o DigitRun(fmt, k + 1)
    ELSE <<>>

\* every "$" of fmt starts a placeholder "$<digits>" with an index below n;
\* escapes: "$$" is allowed too
RECURSIVE WellFormedFrom(_, _, _, _)
WellFormedFrom(fmt, k, n, escapes) ==
    IF k > Len(fmt) THEN TRUE
    ELSE IF fmt[k] # "$" THEN WellFormedFrom(fmt, k + 1, n, escapes)
    ELSE IF escapes /\ k < Len(fmt) /\ fmt[k + 1] = "$"
    THEN WellFormedFrom(fmt, k + 2, n, escapes)
    ELSE LET run == DigitRun(fmt, k + 1) IN
         /\ run # <<>>
         /\ DigitsValue(run, Len(run)) < n
         /\ WellFormedFrom(fmt, k + 1 + Len(run), n, escapes)

\* the rendering of an operand: what write_expression appends for it
Rendering(operand) == write_expression(operand).out

\* the template with each placeholder replaced by the rendering of its
\* operand and every other character copied; with escapes, "$$" gives "$"
RECURSIVE Expansion(_, _, _, _)
Expansion(fmt, args, k, escapes) ==
    IF k > Len(fmt) THEN <<>>
    ELSE IF fmt[k] # "$"
    THEN <<Lit(fmt[k])>> \o Expansion(fmt, args, k + 1, escapes)
    ELSE IF escapes /\ k < Len(fmt) /\ fmt[k + 1] = "$"
    THEN <<Lit("$")>> \o Expansion(fmt, args, k + 2, escapes)
    ELSE LET run == DigitRun(fmt, k + 1) IN
         Rendering(args[DigitsValue(run, Len(run)) + 1])
         \o Expansion(fmt, args, k + 1 + Len(run), escapes)

OperandsRender == \A i \in DOMAIN targs : write_expression(targs[i]).ok

\* fmt ends with a placeholder and no placeholder follows another directly
EndsWithPlaceholder(fmt) ==
    /\ fmt # <<>>
    /\ is_numeric(fmt[Len(fmt)])
    /\ \E k \in 1..Len(fmt) :
          /\ fmt[k] = "$"
          /\ \A j \in (k + 1)..Len(fmt) : is_numeric(fmt[j])
    /\ \A k \in 2..Len(fmt) : fmt[k] = "$" => ~is_numeric(fmt[k - 1])

\* what fmt_expression does right: a template that ends with a placeholder
TemplatesEndingWithPlaceholderExpand ==
    (/\ tstage = "done"
     /\ WellFormedFrom(tfmt, 1, Len(targs), FALSE)
     /\ EndsWithPlaceholder(tfmt)
     /\ OperandsRender)
        => tout = WriteOk(Expansion(tfmt, targs, 1, FALSE))

\* C12: for every template of literal characters and "$<digits>"
\* placeholders with indices within the operand list, fmt_expression
\* completes normally and appends the template with each placeholder
\* replaced by the rendering of its operand and every other character
\* copied unchanged.
C12_TemplateExpansion ==
    (/\ tstage = "done"
     /\ WellFormedFrom(tfmt, 1, Len(targs), FALSE)
     /\ OperandsRender)
        => tout = WriteOk(Expansion(tfmt, targs, 1, FALSE))

\* the template holds the escape "$$"
HasEscape(fmt) == \E k \in 1..(Len(fmt) - 1) : fmt[k] = "$" /\ fmt[k + 1] = "$"

\* C13: "$$" in a template produces one literal "$" and consumes no
\* operand: a template with "$$" escapes and "$<digits>" placeholders
\* expands to its literal characters, one "$" per escape, and the
\* renderings of the operands ("$$$0=$1$$" gives "$", operand 0, "=",
\* operand 1, "$").
C13_DollarEscape ==
    (/\ tstage = "done"
     /\ HasEscape(tfmt)
     /\ WellFormedFrom(tfmt, 1, Len(targs), TRUE)
     /\ OperandsRender)
        => tout = WriteOk(Expansion(tfmt, targs, 1, TRUE))

(***************************************************************************)
(* Claims about the tree builder                                           *)
(***************************************************************************)
\* the function calls inside a token tree
RECURSIVE Calls(_)
Calls(tree) ==
    CASE tree.t = "FunctionCall" ->
            {tree} \cup UNION {Calls(tree.args[k]) : k \in DOMAIN tree.args}
      [] tree.t = "OperatorSequence" ->
            UNION {Calls(tree.children[k]) : k \in DOMAIN tree.children}
      [] tree.t \in {"NumberLiteral", "VariableRef"} -> {}
      [] OTHER -> Calls(tree.child)

\* what the tree builder does: no call it builds has an empty argument list
CallsHaveArguments ==
    (gstage = "done" /\ gres.r = "Ok") => \A call \in Calls(gres.tree) : call.args # <<>>

\* the line is `name ( )`
EmptyCall(name) == gtokens = <<SName(name), SParentheses(FALSE), SParentheses(TRUE)>>

\* C14: a function call with an empty argument list, `name ( )`, is
\* accepted by the tree builder and yields FunctionCall{name, args: []},
\* which Expression::new accepts for the arity-0 builtins (pi, e).
C14_EmptyArgumentListAccepted ==
    \A name \in {"pi", "x"} :
        (gstage = "done" /\ EmptyCall(name))
            => /\ gres = TreeOk(TFunctionCall(name, <<>>), 2)
               /\ (Expression_new(gres.tree).r = "Ok" <=> function_exists(name, 0))

(***************************************************************************)
(* Claims about the value modes                                            *)
(***************************************************************************)
\* the Number nodes of a display tree
RECURSIVE Numbers(_)
Numbers(f) ==
    CASE f.f = "Number" -> {f}
      [] f.f = "Variable" -> {}
      [] f.f = "Operator" -> Numbers(f.left) \cup Numbers(f.right)
      [] f.f = "Function" -> UNION {Numbers(f.args[k]) : k \in DOMAIN f.args}
      [] OTHER -> Numbers(f.child)

\* block k was added in the no-unit numeric mode: ValueMode::NumbersNoUnit
\* for a single line, display_units = false for several
NoUnitNumeric(k) ==
    /\ mresults[k].r = "Ok"
    /\ \E j \in DOMAIN mdoc[k].flags : mdoc[k].flags[j] = "u"
    /\ Len(mdoc[k].lines) = 1 => \A j \in DOMAIN mdoc[k].flags : mdoc[k].flags[j] # "v"

\* the calculation that block k stored
StoredCalculation(k) == mcalcs[mresults[k].idx + 1]

ExpressionSide(calc) ==
    IF calc.c = "Single" THEN Numbers(calc.expr)
    ELSE UNION {Numbers(calc.pairs[j].expr) : j \in DOMAIN calc.pairs}

ResultSide(calc) ==
    IF calc.c = "Single"
    THEN IF calc.result.some THEN Numbers(calc.result.f) ELSE {}
    ELSE UNION {Numbers(calc.pairs[j].res) : j \in DOMAIN calc.pairs}

\* what the no-unit mode does: no number of the expression side has a unit
NoUnitOnExpressionSide ==
    \A k \in DOMAIN mresults :
        NoUnitNumeric(k) =>
            \A number \in ExpressionSide(StoredCalculation(k)) : number.unit = UnitNone

\* C15: in the no-unit numeric mode every Number node of the stored
\* calculation, in the expression side and in the result side, has
\* unit None.
C15_NoUnitModeStoresNoUnit ==
    \A k \in DOMAIN mresults :
        NoUnitNumeric(k) =>
            \A number \in ExpressionSide(StoredCalculation(k))
                           \cup ResultSide(StoredCalculation(k)) :
                number.unit = UnitNone

(***************************************************************************)
(* Claims about the errors of a code block with several lines              *)
(***************************************************************************)
\* the context as block k left it
ContextAfter(k) == IF k < mpos THEN mlog[k + 1].ctx ELSE mctx

\* the handled blocks of several lines in which a line fails to tokenize
\* or to compile
ParseFailedBlocks ==
    {k \in 1..mpos :
        /\ Len(mdoc[k].lines) > 1
        /\ \A j \in DOMAIN mdoc[k].flags : mdoc[k].flags[j] \in PreFlags
        /\ parse_lines(mdoc[k].lines, 1).r = "Err"}

\* the names that the lines of block assign, the lines that fail to
\* tokenize or compile left out
AssignedByOtherLines(block) ==
    {block.lines[j].name : j \in {j \in DOMAIN block.lines :
        /\ block.lines[j].t = "VariableAssign"
        /\ exp(block.lines[j]).r = "Ok"}}

\* what the code does: a block with a line that fails to tokenize or
\* compile evaluates nothing
ParseFailureEvaluatesNothing ==
    \A k \in ParseFailedBlocks :
        /\ mresults[k].r = "Err"
        /\ ContextAfter(k) = mlog[k].ctx

\* C16: in a code block of several lines where one line fails to tokenize
\* or compile, the other lines are still evaluated: the variables that
\* they assign are in the variable context after the block.
C16_LineErrorAbortsLineOnly ==
    \A k \in ParseFailedBlocks :
        \A name \in AssignedByOtherLines(mdoc[k]) : name \in DOMAIN ContextAfter(k)

RECURSIVE FirstFailingLine(_, _, _)
\* the 0-based index of the first line, from line j on, that fails to
\* tokenize, to compile or to evaluate; NoLine when no line fails
FirstFailingLine(block_lines, j, ctx) ==
    IF j > Len(block_lines) THEN NoLine
    ELSE IF block_lines[j] = Blank THEN FirstFailingLine(block_lines, j + 1, ctx)
    ELSE IF exp(block_lines[j]).r # "Ok" THEN j - 1
    ELSE IF eval(exp(block_lines[j]).e, ctx).r # "Ok" THEN j - 1
    ELSE FirstFailingLine(block_lines, j + 1, eval(exp(block_lines[j]).e, ctx).ctx)

\* the handled blocks of several lines that gave an error marker for one
\* of their lines
LineFailedBlocks ==
    {k \in 1..mpos :
        /\ Len(mdoc[k].lines) > 1
        /\ \A j \in DOMAIN mdoc[k].flags : mdoc[k].flags[j] \in PreFlags
        /\ mresults[k].r = "Err"}

\* what the code does: the marker of a line that fails to tokenize or
\* compile names that line
ParseFailureReportsLine ==
    \A k \in ParseFailedBlocks :
        /\ mresults[k].marker.marker = "Error on line"
        /\ mresults[k].marker.line = parse_lines(mdoc[k].lines, 1).at
        /\ exp(mdoc[k].lines[mresults[k].marker.line + 1]).r = "Err"
        /\ \A j \in 1..mresults[k].marker.line :
              mdoc[k].lines[j] = Blank \/ exp(mdoc[k].lines[j]).r = "Ok"

\* C17: for a code block of several lines the inline error marker reports
\* the 0-based index of the first failing line, for tokenization errors,
\* compile errors and evaluation errors alike.
C17_MarkerReportsFailingLine ==
    \A k \in LineFailedBlocks :
        mresults[k].marker.line = FirstFailingLine(mdoc[k].lines, 1, mlog[k].ctx)

(***************************************************************************)
(* Claims about the protocol of the unit library                           *)
(***************************************************************************)
CallsOf(call) == {i \in DOMAIN mcalls : mcalls[i].call = call}

\* the panic of a code block ended the pass inside the loop over the blocks
BlockPanicked == mresults # <<>> /\ mresults[Len(mresults)].r = "Panic"

\* the pass has left the loop over the blocks
LoopLeft == mstage \in {"done", "panicked"} /\ ~BlockPanicked

InteractiveResolveDrains ==
    (interact /\ uphase \in {"resolved", "rendered"}) => cache = <<>>

\* C19: after resolve_units returns the list of cached units is empty, in
\* interactive and in non-interactive mode, so over the passes run on one
\* unit library the list holds only the units cached since the last
\* resolve_units.
C19_ResolveDrainsPending ==
    /\ uphase \in {"resolved", "rendered"} => cache = <<>>
    /\ uphase = "caching" => \A k \in DOMAIN cache : cache[k] \in pass_units

(***************************************************************************)
(* Claims about the order of the pending list                              *)
(***************************************************************************)
\* backends that answer per asked combination: one name for every
\* combination, and a name that depends on the left operand
Backends ==
    {[key \in {"+", "-"} \X (UnitNames \cup AnswerNames) \X (UnitNames \cup AnswerNames)
        |-> "ms"],
     [key \in {"+", "-"} \X (UnitNames \cup AnswerNames) \X (UnitNames \cup AnswerNames)
        |-> IF key[2] = "m" THEN "ms" ELSE "m"]}

\* the walk of resolve_units over units with the answers given
Walk(coll, units, answers) ==
    resolve_all([coll |-> coll, missing |-> {}, answers |-> answers, asked |-> <<>>,
                 run |-> 0], units, 1)

RECURSIVE BackendAnswers(_, _, _, _, _)
\* the answers that backend gives during the walk over units: answers is
\* right up to prompt k - 1, and prompt k tells the combination it asks
BackendAnswers(coll, units, backend, answers, k) ==
    LET prompts == Walk(coll, units, answers).asked IN
    IF k > Len(prompts) THEN answers
    ELSE BackendAnswers(coll, units, backend,
                        [answers EXCEPT ![k] = backend[prompts[k].key]], k + 1)

\* the collection that resolve_units ends with on the pending list units,
\* with the answers of backend and the label "u" for every name
ResolvedWith(coll, units, backend) ==
    LET answers == BackendAnswers(coll, units, backend,
                                  [k \in 1..ImplicitCountAll(units, 1) |-> "m"], 1)
        walked == Walk(coll, units, answers)
    IN  name_missing(walked, walked.missing, [n \in walked.missing |-> "u"]).coll

\* the pending lists with the units of units, in any order and number
Reorderings(units) ==
    {other \in UNION {[1..n -> {units[k] : k \in DOMAIN units}] : n \in 1..MaxCached} :
        {other[k] : k \in DOMAIN other} = {units[k] : k \in DOMAIN units}}

OrderFree(units) ==
    \A backend \in Backends : \A other \in Reorderings(units) :
        ResolvedWith(collection, other, backend) = ResolvedWith(collection, units, backend)

\* the list holds, in its units or inside them, an associative combination
\* in both operand orders
HasSwappedPair(units) ==
    \E a, b \in UNION {SubUnits(units[k]) : k \in DOMAIN units} :
        /\ a.k = "Implicit" /\ b.k = "Implicit"
        /\ a.associative
        /\ b.operator = a.operator
        /\ b.left = a.right
        /\ b.right = a.left
        /\ a.left # a.right

\* what holds: the order and the number of the cached units do not matter
\* for a list without such a pair
OrderFreeWithoutSwappedPair ==
    (interact /\ uphase = "caching" /\ ~HasSwappedPair(cache)) => OrderFree(cache)

\* C20: with a backend that answers per asked combination and per name,
\* resolve_units ends with the same collection (defined units, operator
\* result keys and values) for every order of the pending list and with
\* any unit cached more than once, lists that hold an associative
\* combination in both operand orders included.
C20_PendingOrderIrrelevant ==
    (interact /\ uphase = "caching") => OrderFree(cache)


(***************************************************************************)
(* Claims about the non-interactive unit library                           *)
(***************************************************************************)
RECURSIVE CompositeLabel(_)
\* "<left> <operator> <right>", built from the leaves up
CompositeLabel(unit) ==
    IF unit.k = "Defined" THEN <<unit.name>>
    ELSE CompositeLabel(unit.left) \o <<" ">> \o <<unit.operator>> \o <<" ">>
         \o CompositeLabel(unit.right)

\* C21: with interact = false no call of cache_defined_unit, resolve_units
\* or get_defined_unit prompts or changes defined_units or
\* operator_results, and get_defined_unit returns the leaf name of a
\* Defined unit and the composite "<left> <operator> <right>" of an
\* Implicit one, whatever the collection holds.
C21_NonInteractiveLeavesCollection ==
    [][~interact =>
          /\ collection' = collection
          /\ asked' = asked
          /\ \A unit \in DOMAIN got' :
                got'[unit] = [r |-> "Ok", label |-> CompositeLabel(unit)]]_vars

\* a non-interactive pass that cached a unit the collection has no entry
\* for, resolved and asked for the composite of a nested unit
C21_Witness ==
    /\ ~interact
    /\ uphase = "rendered"
    /\ runs = 2
    /\ collection = UnitCollection(EmptyMap, EmptyMap)
    /\ \E unit \in DOMAIN got :
          /\ unit.k = "Implicit"
          /\ unit.left.k = "Implicit"
          /\ Len(got[unit].label) = 9

(***************************************************************************)
(* Claims about the display tree of a formula                              *)
(***************************************************************************)
\* the call stored a calculation
Added == bstage = "added" /\ bres.r = "Ok"

\* the display tree the call stored
Display == bres.b.calcs[Len(bres.b.calcs)].expr

\* C22: in the display tree of an Operator node the left (right) child is
\* a Parenthesis node if and only if the child is an Operator node, the
\* parent's precedence is strictly greater than the child's and the
\* parent's should_parenthesize_left (should_parenthesize_right) is true.
C22_ParenthesisIffLowerPrecedenceChild ==
    (Added /\ bexp.t = "Operator") =>
        /\ Display.f = "Operator"
        /\ Display.left.f = "Parenthesis" <=>
              /\ bexp.left.t = "Operator"
              /\ operator_precedence(bexp.left.operator) <
                    operator_precedence(bexp.operator)
              /\ should_parenthesize_left(bexp.operator)
        /\ Display.right.f = "Parenthesis" <=>
              /\ bexp.right.t = "Operator"
              /\ operator_precedence(bexp.right.operator) <
                    operator_precedence(bexp.operator)
              /\ should_parenthesize_right(bexp.operator)

\* 3 * (2 + 1): the right child is an Operator node of lower precedence
\* and is generated in parentheses
C22_Witness ==
    /\ Added
    /\ bexp = Operator("*", NumberLiteral(Int2F(3)),
                       Operator("+", NumberLiteral(Int2F(2)), NumberLiteral(Int2F(1))))
    /\ Display.right.f = "Parenthesis"
    /\ Display.left.f = "Number"

\* the unit a unit-suffix node declares
SuffixUnit(self) ==
    IF self.t = "LiteralUnit" THEN UnitLiteral(self.name)
    ELSE IF self.name = NoName THEN UnitNone
    ELSE UnitDefined(Defined(self.name))

\* the generation of the child of the formula, on the context the call left
ChildDisplay ==
    generate_formattable_expression(bres.b.ctx, <<>>, bexp.child, bmode, FALSE).f

\* C23: the display tree of a unit-suffix node is the generation of its
\* child in the no-unit modes; otherwise Number{literal, suffix unit} for
\* a NumberLiteral child, Number{stored value, suffix unit} for a
\* VariableRef child in NumbersWithUnit, and the generation of the child
\* in every other case.
C23_UnitSuffixGeneration ==
    (Added /\ bexp.t \in {"DefinedUnit", "LiteralUnit"}) =>
        Display =
            IF IsNoUnitMode(bmode) THEN ChildDisplay
            ELSE IF bexp.child.t = "NumberLiteral"
            THEN FNumber(bexp.child.v, SuffixUnit(bexp))
            ELSE IF bexp.child.t = "VariableRef" /\ bmode = "NumbersWithUnit"
            THEN FNumber(bbefore.ctx[bexp.child.name].v, SuffixUnit(bexp))
            ELSE ChildDisplay

\* x m with x stored as 5 "kg", in NumbersWithUnit: the Number carries m
C23_Witness ==
    /\ Added
    /\ bmode = "NumbersWithUnit"
    /\ bexp = DefinedUnitExp("m", VariableRef("x"))
    /\ bbefore.ctx["x"].u = UnitLiteral("kg")
    /\ Display = FNumber(Int2F(5), UnitDefined(Defined("m")))

(***************************************************************************)
(* Claims about operator runs                                              *)
(***************************************************************************)
\* the OperatorSequence nodes of a token tree
RECURSIVE Sequences(_)
Sequences(tree) ==
    CASE tree.t = "OperatorSequence" ->
            {tree} \cup UNION {Sequences(tree.children[k]) : k \in DOMAIN tree.children}
      [] tree.t = "FunctionCall" ->
            UNION {Sequences(tree.args[k]) : k \in DOMAIN tree.args}
      [] tree.t \in {"NumberLiteral", "VariableRef"} -> {}
      [] OTHER -> Sequences(tree.child)

\* every run of a returned tree has an operator and one more child than
\* operators
ReturnedRunsWellFormed ==
    (gstage = "done" /\ gres.r = "Ok") =>
        \A run \in Sequences(gres.tree) :
            /\ Len(run.operators) >= 1
            /\ Len(run.children) = Len(run.operators) + 1

\* transform_operators' expects hold on a returned tree
ExpectsHoldOnReturnedTrees ==
    (gstage = "done" /\ gres.r = "Ok") => Expression_new(gres.tree).r # "Panic"

\* a line whose run has no operand: it is empty or starts with `)` or `,`
NoOperand == gtokens = <<>> \/ gtokens[1] \in {SParentheses(TRUE), SOperator(",")}

\* a line that ends with an operator
TrailingOperator ==
    gtokens # <<>> /\ gtokens[Len(gtokens)].s = "Operator"
                   /\ gtokens[Len(gtokens)].v # ","

\* what gen_tree does with a trailing operator
TrailingOperatorRejected ==
    (gstage = "done" /\ TrailingOperator /\ ~NoOperand) => gres.r = "Err"

\* C24: every OperatorSequence of a tree tokenize returns has at least one
\* operator and exactly one more child than operators; a line that gives
\* no operand, or ends with an operator or a `-`, is rejected with a
\* TokenizationError; so the expects of transform_operators never fail on
\* a returned tree.
C24_OperatorRunsWellFormed ==
    /\ ReturnedRunsWellFormed
    /\ (gstage = "done" /\ (NoOperand \/ TrailingOperator)) => gres.r = "Err"
    /\ ExpectsHoldOnReturnedTrees

(***************************************************************************)
(* Claims about the numbers of the display tree                            *)
(***************************************************************************)
\* the value of a numeric display tree, computed with the library's
\* operators and functions; NonRational where the library fails
RECURSIVE DisplayValue(_)
DisplayValue(f) ==
    CASE f.f = "Number" -> f.value
      [] f.f = "Parenthesis" -> DisplayValue(f.child)
      [] f.f = "Negate" -> FNeg(DisplayValue(f.child))
      [] f.f = "Operator" ->
            LET v == eval_operator(f.operator, DisplayValue(f.left),
                                   DisplayValue(f.right))
            IN  IF v.ok THEN v.v ELSE NonRational
      [] f.f = "Function" ->
            LET v == eval_function(f.name, [k \in DOMAIN f.args |->
                                               DisplayValue(f.args[k])])
            IN  IF v.ok THEN v.v ELSE NonRational
      [] OTHER -> NonRational

\* the names a formula assigns and the names it reads
RECURSIVE Assigned(_)
Assigned(e) ==
    CASE e.t = "VariableAssign" -> {e.name} \cup Assigned(e.child)
      [] e.t = "Operator" -> Assigned(e.left) \cup Assigned(e.right)
      [] e.t = "FunctionCall" -> UNION {Assigned(e.args[k]) : k \in DOMAIN e.args}
      [] e.t \in {"VariableRef", "NumberLiteral"} -> {}
      [] OTHER -> Assigned(e.child)

RECURSIVE Read(_)
Read(e) ==
    CASE e.t = "VariableRef" -> {e.name}
      [] e.t = "Operator" -> Read(e.left) \cup Read(e.right)
      [] e.t = "FunctionCall" -> UNION {Read(e.args[k]) : k \in DOMAIN e.args}
      [] e.t = "NumberLiteral" -> {}
      [] OTHER -> Read(e.child)

\* the number the call stored as the result
DisplayedResult == bres.b.calcs[Len(bres.b.calcs)].result.f.value

\* what the builder does: the displayed expression gives the displayed
\* result when the formula assigns no variable that it reads
ConsistentWithoutSelfAssignment ==
    (Added /\ IsNumbersMode(bmode) /\ Assigned(bexp) \cap Read(bexp) = {}) =>
        DisplayValue(Display) = DisplayedResult

\* C25: in the numeric display modes the Number generated for a
\* VariableRef carries the value the reference had when the formula was
\* evaluated, so the displayed expression gives the displayed result,
\* also when the formula assigns the variable it reads (`x = x + 1`).
C25_DisplayedExpressionGivesResult ==
    (Added /\ IsNumbersMode(bmode)) => DisplayValue(Display) = DisplayedResult

(***************************************************************************)
(* Claims about the grouping of the display tree                           *)
(***************************************************************************)
Leaf == [s |-> "leaf"]

Neg(child) == [s |-> "neg", child |-> child]

Op(operator, left, right) ==
    [s |-> "op", operator |-> operator, left |-> left, right |-> right]

\* the operator shape of an Expression: assignments and unit suffixes are
\* no operators
RECURSIVE ShapeOf(_)
ShapeOf(e) ==
    CASE e.t = "Operator" -> Op(e.operator, ShapeOf(e.left), ShapeOf(e.right))
      [] e.t = "Negate" -> Neg(ShapeOf(e.child))
      [] e.t \in {"VariableAssign", "DefinedUnit", "LiteralUnit"} -> ShapeOf(e.child)
      [] OTHER -> Leaf

\* the template of the operator writes operand k (0 or 1) inside braces
Braced(operator, k) ==
    \E i \in 2..(Len(OperatorFmt(operator)) - 1) :
        /\ OperatorFmt(operator)[i] = "$"
        /\ OperatorFmt(operator)[i + 1] = (IF k = 0 THEN "0" ELSE "1")
        /\ OperatorFmt(operator)[i - 1] \in {"\\dfrac{", "}{", "^{"}

\* the template of the operator writes the whole node as one box
Boxed(operator) == Braced(operator, 0) /\ Braced(operator, 1)

\* an item of the infix sequence
Item(kind) == [kind |-> kind, op |-> ""]

Bracketed(items) == <<Item("(")>> \o items \o <<Item(")")>>

\* the display tree read as an infix sequence: "o" for an operand, "-" for
\* a negation, the operator symbols as [op], "(" and ")" for Parenthesis
\* nodes and for the braces of a template
RECURSIVE Infix(_)
Infix(f) ==
    CASE f.f = "Parenthesis" -> Bracketed(Infix(f.child))
      [] f.f = "Negate" -> <<Item("-")>> \o Infix(f.child)
      [] f.f = "Operator" ->
            LET left == IF Braced(f.operator, 0) THEN Bracketed(Infix(f.left))
                        ELSE Infix(f.left)
                right == IF Braced(f.operator, 1) THEN Bracketed(Infix(f.right))
                         ELSE Infix(f.right)
                items == left \o <<[kind |-> "op", op |-> f.operator]>> \o right
            IN  IF Boxed(f.operator) THEN Bracketed(items) ELSE items
      [] OTHER -> <<Item("o")>>

IsOp(items, i) == i <= Len(items) /\ items[i].kind = "op"

\* grouping by precedence, equal precedence left to right, a negation
\* binding its operand first: [shape, i], i the index after the part read
RECURSIVE Primary(_, _)
RECURSIVE Climb(_, _, _, _)
RECURSIVE Grouped(_, _, _)

Primary(items, i) ==
    CASE items[i].kind = "(" ->
            LET inner == Grouped(items, i + 1, 0) IN
            [shape |-> inner.shape, i |-> inner.i + 1]
      [] items[i].kind = "-" ->
            LET operand == Primary(items, i + 1) IN
            [shape |-> Neg(operand.shape), i |-> operand.i]
      [] OTHER -> [shape |-> Leaf, i |-> i + 1]

Climb(items, left, i, least) ==
    IF IsOp(items, i) /\ operator_precedence(items[i].op) >= least
    THEN LET right == Grouped(items, i + 1, operator_precedence(items[i].op) + 1)
         IN  Climb(items, Op(items[i].op, left, right.shape), right.i, least)
    ELSE [shape |-> left, i |-> i]

Grouped(items, i, least) ==
    LET first == Primary(items, i) IN Climb(items, first.shape, first.i, least)

Regrouped(f) == Grouped(Infix(f), 1, 0).shape

\* an Operator node with an Operator of its own precedence on the right
RECURSIVE HasEqualRight(_)
HasEqualRight(e) ==
    CASE e.t = "Operator" ->
            \/ /\ e.right.t = "Operator"
               /\ operator_precedence(e.right.operator) = operator_precedence(e.operator)
               /\ ~Braced(e.operator, 1)
            \/ HasEqualRight(e.left)
            \/ HasEqualRight(e.right)
      [] e.t = "FunctionCall" -> FALSE
      [] e.t \in {"VariableRef", "NumberLiteral"} -> FALSE
      [] OTHER -> HasEqualRight(e.child)

\* a unit suffix (or an assignment) on an operator run
RECURSIVE HasSuffixedRun(_)
HasSuffixedRun(e) ==
    CASE e.t \in {"DefinedUnit", "LiteralUnit", "VariableAssign"} ->
            e.child.t = "Operator" \/ HasSuffixedRun(e.child)
      [] e.t = "Operator" -> HasSuffixedRun(e.left) \/ HasSuffixedRun(e.right)
      [] e.t = "Negate" -> HasSuffixedRun(e.child)
      [] OTHER -> FALSE

\* what generation does: the grouping is kept when no run stands under a
\* unit suffix and no operator has its own precedence on the right
GroupingKeptOtherwise ==
    (Added /\ ~HasEqualRight(bexp)
           /\ ~(bexp.t = "Operator" /\ HasSuffixedRun(bexp)))
        => Regrouped(Display) = ShapeOf(bexp)

\* C26: the display tree, read as an infix sequence with Parenthesis nodes
\* as brackets and grouped again by precedence, equal precedence left to
\* right, gives the operator shape of the Expression, also for
\* `a - (b - c)` and `(a + b) m * c`.
C26_DisplayKeepsGrouping ==
    Added => Regrouped(Display) = ShapeOf(bexp)

(***************************************************************************)
(* Claims about the order of a compiled run                                *)
(***************************************************************************)
\* the operands (members of S) inside a compiled tree, left to right
RECURSIVE InOrderOperands(_, _)
InOrderOperands(e, S) ==
    IF e \notin S /\ e.t = "Operator"
    THEN InOrderOperands(e.left, S) \o InOrderOperands(e.right, S)
    ELSE <<e>>

\* the operators that join the operands inside a compiled tree, left to
\* right
RECURSIVE InOrderOperators(_, _)
InOrderOperators(e, S) ==
    IF e \notin S /\ e.t = "Operator"
    THEN InOrderOperators(e.left, S) \o <<e.operator>> \o InOrderOperators(e.right, S)
    ELSE <<>>

\* C27: in the Expression compiled from a flat run the operands, read left
\* to right, are the operands of the run, each one unchanged, and the
\* operators, read left to right, are the operators of the run.
C27_CompileKeepsOrder ==
    (cstage # "tokens" /\ expr.r = "Ok") =>
        \A operands \in {RunOperands} :
            \A S \in {{operands[k] : k \in DOMAIN operands}} :
                /\ InOrderOperands(expr.e, S) = operands
                /\ InOrderOperators(expr.e, S) = tokens.operators

\* 4 + (1 + 1) * 3 ** 1: three precedence levels and an operand that is
\* itself a run
C27_Witness ==
    /\ cstage = "compiled"
    /\ expr.r = "Ok"
    /\ tokens = RunTokens(3, <<"+", "*", "**">>)
    /\ expr.e.t = "Operator"

(***************************************************************************)
(* Claims about the labels of the collection                               *)
(***************************************************************************)
\* every result name of every operator-result entry has a display label
ResultsLabelled(coll) ==
    \A key \in DOMAIN coll.operator_results :
        coll.operator_results[key] \in DOMAIN coll.defined_units

\* the leaf names of a unit
RECURSIVE LeafNames(_)
LeafNames(unit) ==
    IF unit.k = "Defined" THEN {unit.name}
    ELSE LeafNames(unit.left) \cup LeafNames(unit.right)

\* the step is an interactive resolve_units
InteractiveResolve == interact /\ uphase = "caching" /\ uphase' = "resolved"

\* C28: an interactive resolve_units that starts on a collection whose
\* result names all have a display label ends on one whose result names,
\* and the leaf names of the units that were cached, all have a display
\* label.
C28_ResolveKeepsLabelClosure ==
    [][(InteractiveResolve /\ ResultsLabelled(collection)) =>
          /\ ResultsLabelled(collection')
          /\ \A i \in DOMAIN cache :
                LeafNames(cache[i]) \subseteq DOMAIN collection'.defined_units]_vars

\* an interactive resolve_units on the empty collection that asked for a
\* result and for the label of a name
C28_Witness ==
    /\ interact
    /\ uphase = "resolved"
    /\ lastrun.labelled = {}
    /\ \E i \in DOMAIN lastrun.cache : lastrun.cache[i].k = "Implicit"
    /\ DOMAIN collection.operator_results # {}
    /\ \E i \in DOMAIN asked : asked[i].kind = "name" /\ asked[i].s = "ms"
    /\ ResultsLabelled(collection)

(***************************************************************************)
(* Claims about the assignments of a pass                                  *)
(***************************************************************************)
\* the handled blocks of one line `x = expr` that gave no error
SingleAssignments ==
    {k \in 1..mpos :
        /\ Len(mdoc[k].lines) = 1
        /\ mdoc[k].lines[1].t = "VariableAssign"
        /\ mresults[k].r = "Ok"}

Named(block) == \E j \in DOMAIN block.flags : block.flags[j] = "v"

\* what the builder does: the assignment of a block in a numeric mode is
\* stored
NumericAssignmentsStored ==
    \A k \in SingleAssignments :
        ~Named(mdoc[k]) => mdoc[k].lines[1].name \in DOMAIN ContextAfter(k)

\* C29: a block of the one line `x = expr` that is processed without
\* error stores x in the variable context whatever its flags are, the
\* flag `v` included, so a block that references x next evaluates.
C29_AssignmentStoredInEveryMode ==
    \A k \in SingleAssignments :
        /\ mdoc[k].lines[1].name \in DOMAIN ContextAfter(k)
        /\ (k < mpos /\ mdoc[k + 1] = SingleBlock(<<>>,
                                         TVariableRef(mdoc[k].lines[1].name)))
              => mresults[k + 1].r = "Ok"

(***************************************************************************)
(* Claims about blank input                                                *)
(***************************************************************************)
\* the handled blocks whose only line is blank
BlankSingleBlocks ==
    {k \in 1..mpos : Len(mdoc[k].lines) = 1 /\ mdoc[k].lines[1] = Blank}

\* what handle_code_block does: every other block of the pool returns Ok
\* or Err
OtherBlocksReturn ==
    \A k \in (1..mpos) \ BlankSingleBlocks : mresults[k].r \in {"Ok", "Err"}

\* what tokenize does without overflow checks: the index wraps and the
\* line without operand is an Err
WrappingBuildRejects ==
    (gstage = "done" /\ ~gchecks /\ gtokens = <<>>) => gres.r = "Err"

\* C30: handle_code_block returns Ok or Err for every block, also for a
\* block whose only line is blank (the document `a^ ^b`), and tokenize on
\* a text with no tokens returns a TokenizationError.
C30_BlankInputNoOutOfRange ==
    /\ \A k \in 1..mpos : mresults[k].r \in {"Ok", "Err"}
    /\ (gstage = "done" /\ gtokens = <<>>) => gres.r = "Err"

====
